---- MODULE Spec2Model ----
(***************************************************************************)
(* The engine boundary of turbomind-go: the handle-based C ABI of          *)
(* src/src/turbomind_wrapper*.cpp (create_engine, destroy_engine,          *)
(* is_engine_ready, generate, generate_batch, the last-error slot), called *)
(* by several caller threads on one engine object.                         *)
(*                                                                         *)
(* The repository holds five interchangeable implementations of that ABI;  *)
(* the variable `variant` says which one is linked:                        *)
(*   "wrapper"     turbomind_wrapper.cpp            (backend Engine)       *)
(*   "impl"        turbomind_wrapper_impl.cpp       (mock)                 *)
(*   "simplified"  turbomind_wrapper_simplified.cpp (mock)                 *)
(*   "hybrid"      turbomind_wrapper_hybrid.cpp     (file checks + mock)   *)
(*   "real"        turbomind_wrapper_real.cpp       (LlamaTritonModel)     *)
(*                                                                         *)
(* One step of the model is one access to state shared between threads     *)
(* (an atomic load/store/fetch_add of an engine field, one critical        *)
(* section of request_mutex, a backend call, the delete, a write of the    *)
(* error slot); code between two such accesses is local to the calling     *)
(* thread and belongs to the later step, the return of a call to its last  *)
(* step.                                                                   *)
(*                                                                         *)
(* What a call reads and writes besides the engine and the error slot (its *)
(* request and response structs) is private to the calling thread, so one  *)
(* thread, Observed, is given every input; the other threads make the      *)
(* calls that interfere with it through the engine (destroy, generate with *)
(* a valid request).                                                       *)
(*                                                                         *)
(* Two further files implement the other ABI of the repository, the        *)
(* low-level model path declared in turbomind_wrapper.hpp (models, model   *)
(* instances, tensors, tensor maps, forward):                              *)
(*   "proper"        turbomind_wrapper_proper.cpp       (LlamaTritonModel) *)
(*   "minimal_test"  turbomind_wrapper_minimal_test.cpp (mock)             *)
(* Each has a last-error slot of its own; a program links one file, so     *)
(* `variant` also says which ABI the caller has.                           *)
(***************************************************************************)
EXTENDS Integers, Sequences, FiniteSets, TLC

(* ----------------------------- bounds --------------------------------- *)
\* largest batch_size a caller passes to generate_batch
MaxBatch == 2
\* the request-ID counter is capped: auto-assignment is taken only below it
MaxAutoId == 2
\* how many times the caller applies free_response / free_model_info to one struct
MaxFrees == 2

\* the thread whose calls take every input, and a thread calling concurrently
Observed == "caller"
Other == "other"
Threads == {Observed, Other}

Variants == {"wrapper", "impl", "simplified", "hybrid", "real"}
\* the implementations of the low-level model path
ModelVariants == {"proper", "minimal_test"}

\* a null char* / null struct pointer
NullPtr == "<nullptr>"

(* ------------------------- caller inputs ------------------------------ *)
\* RequestParams.request_id values a caller passes
ReqIds == {-1, 0, 2}
\* RequestParams.prompt values a caller passes
Prompts == {NullPtr, "", "Hello, world!"}
\* TurboMindConfig values: a null config, or a config with this model_path
Configs == {"<null config>", NullPtr, "", "/m"}

Requests == [request_id : ReqIds, prompt : Prompts]
\* the items of a batch: a good one and one with an empty prompt
BatchRequests == [request_id : {0}, prompt : {"", "Hello, world!"}]
\* the requests of the other thread: a good one, its ID auto-assigned
EnvRequests == [request_id : {0}, prompt : {"Hello, world!"}]
RequestsOf(t, op) ==
  IF t # Observed THEN EnvRequests ELSE IF op = "batch" THEN BatchRequests ELSE Requests

\* ResponseData response = {};
ZeroResp ==
  [request_id |-> 0, text |-> NullPtr, input_tokens |-> 0, output_tokens |-> 0,
   finished |-> FALSE, error_code |-> 0, error_message |-> NullPtr]
\* a response struct the caller reuses: it still holds an earlier result
StaleResp ==
  [request_id |-> 9, text |-> "stale", input_tokens |-> 1, output_tokens |-> 1,
   finished |-> TRUE, error_code |-> 0, error_message |-> NullPtr]
InitialResps == {ZeroResp, StaleResp}
InitialRespsOf(t) == IF t = Observed THEN InitialResps ELSE {ZeroResp}
\* which pointer argument of a call is null
NullArgsOf(t, names) == IF t = Observed THEN {"none"} \cup names ELSE {"none"}

(* --------------------------- messages --------------------------------- *)
NoError == ""
ErrInvalidConfig == "Invalid configuration: model_path is required"
ErrInvalidParams == "Invalid parameters"
ErrInvalidBatch == "Invalid parameters for batch generation"
ErrNotReady == "Engine not ready"
ErrEmptyPrompt == "Empty prompt"
ErrGenerationFailed == "Generation failed"
ErrGenException == "Exception during generation: backend fault"
ErrInfoException == "Exception getting model info: backend fault"
ErrAsyncGenerate == "Async generation not implemented yet"
ErrAsyncResponse == "Async response retrieval not implemented yet"

VARIABLES
  variant,          \* which implementation file is linked
  lastError,        \* g_last_error
  engAlloc,         \* the engine object: "none", "constructing", "live", "freed"
  model_path,       \* TurboMindEngine::model_path
  ready,            \* TurboMindEngine::ready
  next_request_id,  \* TurboMindEngine::next_request_id
  active_requests,  \* TurboMindEngine::active_requests, id -> owning call (thread)
  built,            \* backend construction steps create_engine has completed
  teardown,         \* how far destroy_engine got: "no", "entered", "unready", "drained", "released"
  th,               \* per caller thread: the call in progress; for Observed, once
                    \* it has returned, its result
  autoLog,          \* history: IDs auto-assigned from the live counter, in order
  hist,             \* history flags of the run
  objs,             \* low-level path: the object behind each kind of handle,
                    \* "none", "live" or "freed"
  tensors,          \* low-level path: the keys set in the tensor map
  tensor,           \* <<the TurboMindTensor under study>>: shape, dtype, size_bytes
  tsize,            \* <<what turbomind_get_tensor_size returned for it>>
  fw,               \* per caller thread: its turbomind_forward call on the instance
  sess,             \* history: per session ID, how far the forward calls that
                    \* returned a result have taken the session
  g_last_error,     \* the characters of g_last_error, as <<first half, second half>>
  g_error_mutex,    \* g_error_mutex: "free" or the thread that holds it
  ec,               \* per caller thread: its set_last_error / get_last_error call
                    \* and its read through the returned pointer
  completed,        \* history: the message of the set_last_error that returned last
  sampling,         \* <<the sampling parameters of a request and what the backend got>>
  config,           \* <<the configuration create_engine stored in the engine>>
  request_mutex,    \* TurboMindEngine::request_mutex: "free" or the thread that holds it
  lk                \* per caller thread: its call on the engine, at the grain of
                    \* the lock_guard scopes of request_mutex

\* the state of the calls on the engine and on the low-level handles
callVars == <<variant, lastError, engAlloc, model_path, ready, next_request_id,
              active_requests, built, teardown, th, autoLog, hist, objs, tensors>>

\* one tensor object in full
tensorVars == <<tensor, tsize>>

\* the state the component specifications (one object or one conversion in
\* full, no calls in progress) add to callVars
\* the forward calls on one model instance
forwardVars == <<fw, sess>>

\* the error slot at character level
errorVars == <<g_last_error, g_error_mutex, ec, completed>>
\* the conversions of the request parameters and of the engine configuration
convVars == <<sampling, config>>
\* the request lock of one engine and the calls that take it
lockVars == <<request_mutex, lk>>
auxVars == <<tensorVars, forwardVars, errorVars, convVars, lockVars>>

vars == <<callVars, auxVars>>

engineVars == <<engAlloc, model_path, ready, next_request_id, active_requests, built,
                teardown>>

modelVars == <<objs, tensors>>

(* -------------------------- pure helpers ------------------------------ *)
\* safe_string_copy: a null char* becomes the empty string
safe_string_copy(src) == IF src = NullPtr THEN "" ELSE src

\* allocate_string: a fresh non-null copy of the string
allocate_string(str) == str

\* the request ID generate gives a request: the caller's when positive,
\* else the value of the engine's counter (request_id > 0 ? request_id : next_request_id++)
AssignedId(request_id, counter) == IF request_id > 0 THEN request_id ELSE counter

\* the counter after that expression
CounterAfterStuck(request_id, counter) == counter
CounterAfter(request_id, counter) == IF request_id > 0 THEN counter ELSE counter + 1

\* does this implementation reject an empty prompt before generating?
ChecksEmptyPrompt(v) == v \in {"impl", "hybrid", "real"}

(* ------------------------- backend collaborator ------------------------ *)
\* what create_engine constructs, in order, in each implementation
BuildSteps(v) ==
  CASE v = "wrapper" -> <<"Engine">>
    [] v = "hybrid" -> <<"model_files", "load_model_config">>
    [] v = "real" -> <<"createLlamaModel", "createModelInstance", "processWeights",
                       "createEngine", "getParams">>
    [] OTHER -> <<>>

\* how one construction step can end
StepOutcomes(step) ==
  CASE step = "model_files" -> {"ok", "missing"}
    [] step \in {"createLlamaModel", "createModelInstance"} -> {"ok", "null", "throw"}
    [] OTHER -> {"ok", "throw"}

\* the message a construction step's outcome leaves when it ends the creation
\* (NoError: the creation goes on; a throw of getParams is caught and logged)
StepError(step, outcome) ==
  CASE outcome = "ok" -> NoError
    [] step = "getParams" -> NoError
    [] step = "Engine" -> "Exception creating engine: backend fault"
    [] step = "model_files" -> "Model directory does not contain recognizable model files"
    [] step = "load_model_config" -> "Failed to load model config: backend fault"
    [] step = "createLlamaModel" /\ outcome = "null" -> "Failed to create LlamaTritonModel"
    [] step = "createModelInstance" /\ outcome = "null" -> "Failed to create model instance"
    [] OTHER -> "Failed to initialize TurboMind model: backend fault"

\* the number of construction steps completed when create_engine stores ready = true
ReadyAtStart(v) == 0
ReadyAt(v) == Len(BuildSteps(v))

\* what turbomind::Engine::Generate can hand back (wrapper): a response ...
BackendResponses ==
  { [text |-> "generated", input_tokens |-> 3, output_tokens |-> 2, finished |-> TRUE,
     error_code |-> 0, error_message |-> ""],
    [text |-> "", input_tokens |-> 3, output_tokens |-> 0, finished |-> FALSE,
     error_code |-> 1, error_message |-> "backend error"] }
\* ... or no response ("null"), or an exception ("throw")
BackendKinds == {"response", "null", "throw"}

\* the mocks have no backend response
NoBackend ==
  [text |-> "", input_tokens |-> 0, output_tokens |-> 0, finished |-> FALSE,
   error_code |-> 0, error_message |-> ""]

(* ----------------------------- threads -------------------------------- *)
EmptyMap == [x \in {} |-> 0]

\* a thread outside any call
IdleThread ==
  [pc |-> "idle", op |-> "none", engNull |-> FALSE, cfg |-> NullPtr,
   n |-> 0, reqs |-> <<>>, resps |-> <<>>, resps0 |-> <<>>, idx |-> 0,
   tmId |-> 0, ids |-> <<>>, outs |-> <<>>,
   returned |-> FALSE, ret |-> 0, handle |-> NullPtr, rdy |-> FALSE,
   err |-> NoError, notReady |-> FALSE, consumed |-> FALSE, inserted |-> FALSE,
   dispatched |-> FALSE, stale |-> FALSE, failedAt |-> 0,
   obsAfterDestroy |-> FALSE, obsReleased |-> FALSE,
   infos |-> <<>>, infos0 |-> <<>>, backendFault |-> FALSE,
   frees |-> 0, released |-> <<>>, arg |-> "none", key |-> NullPtr]

\* the thread starts a call of `op`
Entered(op) == [IdleThread EXCEPT !.op = op]

\* a call whose behaviour became undefined: it touched the released engine and
\* did not come back with a defined result
Undefined == [IdleThread EXCEPT !.pc = "ub"]

\* an exception left a destructor running under `delete` in the call of
\* thread t: no handler is around the delete, the call never returns its
\* result and the process ends (std::terminate); no thread runs on
Terminated(t, op) ==
  [u \in Threads |-> [IdleThread EXCEPT !.pc = "terminated",
                                        !.op = IF u = t THEN op ELSE "none",
                                        !.dispatched = (u = t),
                                        !.backendFault = (u = t)]]

\* does a destroy operation act on this pointer? `if (engine)`, `delete p`
DeleteActsAlways(isNull) == TRUE
DeleteActs(isNull) == ~isNull

\* how the destructors of the backend objects a handle owns can end: wrapper
\* owns a turbomind::Engine, real a LlamaTritonModel and its instance, proper
\* LlamaTritonModel, ModelRequest, Tensor and TensorMap; the others own none
TeardownOutcomes(v) ==
  IF v \in {"wrapper", "real", "proper"} THEN {"ok", "throw"} ELSE {"ok"}

\* a thread between two calls
Returned == [IdleThread EXCEPT !.op = "returned"]

\* the call of thread t goes on as `rec`, or has returned as `rec`
Commit(t, rec) ==
  th' = [th EXCEPT ![t] = IF rec.returned /\ t # Observed THEN Returned ELSE rec]

\* thread t is at `pc`; a returning call of Observed is looked at before
\* anything else happens
At(t, pc) == th[t].pc = pc /\ ~th[Observed].returned

Rank(stage) ==
  CASE stage = "no" -> 0 [] stage = "entered" -> 1 [] stage = "unready" -> 2
    [] stage = "drained" -> 3 [] OTHER -> 4
\* teardown never goes back
Advance(stage) == IF Rank(stage) > Rank(teardown) THEN stage ELSE teardown
\* the engine's teardown has executed at least its first statement
TearingDown == Rank(teardown) >= Rank("unready")

\* a call may be made with the engine handle once create_engine has returned it
HandlePublished == engAlloc \in {"live", "freed"}

\* the kinds of object the low-level path hands out handles to
Kinds == {"model", "instance", "tensor", "tensor_map", "result"}

(* ------------------------------ Init ---------------------------------- *)
\* no object exists, no call has been made: the caller holds nothing (what
\* it holds is a sequence of at most one object or value)
NoObject == <<>>

\* the session IDs the callers use
SessionIds == {1, 2}

\* a thread outside turbomind_forward
IdleForward ==
  [pc |-> "idle", arg |-> "none", session |-> <<>>, list |-> <<>>, sent |-> <<>>,
   handle |-> NullPtr, err |-> NoError, seq_len |-> 0, afterEnd |-> FALSE,
   signal |-> "none", signals |-> 0]

\* a slot holding the whole message m
Whole(m) == <<m, m>>
\* a thread outside set_last_error and get_last_error
IdleError == [pc |-> "idle", msg |-> NoError, got |-> <<>>]
\* a thread outside the calls that take request_mutex
IdleLock == [pc |-> "idle", id |-> 0, left |-> 0]
\* nothing outside the engine calls has happened: no tensor, no forward call,
\* g_last_error empty and g_error_mutex free, no request converted, no
\* configuration stored
AuxIdle ==
  /\ tensor = NoObject /\ tsize = NoObject
  /\ fw = [t \in Threads |-> IdleForward] /\ sess = [i \in SessionIds |-> "new"]
  /\ g_last_error = Whole(NoError)
  /\ g_error_mutex = "free"
  /\ ec = [t \in Threads |-> IdleError]
  /\ completed = NoError
  /\ sampling = NoObject /\ config = NoObject
  /\ request_mutex = "free"
  /\ lk = [t \in Threads |-> IdleLock]

Init ==
  /\ AuxIdle
  /\ variant \in Variants \cup ModelVariants
  /\ lastError = NoError
  /\ engAlloc = "none"
  /\ model_path = ""
  /\ ready = FALSE
  /\ next_request_id = 1
  /\ active_requests = EmptyMap
  /\ built = 0
  /\ teardown = "no"
  /\ th = [t \in Threads |-> IdleThread]
  /\ autoLog = <<>>
  /\ hist = [usedAfterTeardown |-> FALSE, failedWhileReady |-> FALSE]
  /\ objs = [k \in Kinds |-> "none"]
  /\ tensors = {}

(* ------------------------- create_engine ------------------------------ *)
\* entry: validate the config, then make_unique<TurboMindEngine>(); it is the
\* first call the caller makes
CreateCall(t) ==
  /\ At(t, "idle")
  /\ variant \in Variants
  /\ t = Observed
  /\ th[t].op = "none"
  /\ engAlloc = "none"
  /\ \E cfg \in Configs :
       IF cfg = "<null config>" \/ cfg = NullPtr
       THEN /\ lastError' = ErrInvalidConfig
            /\ Commit(t, [Entered("create") EXCEPT !.cfg = cfg, !.returned = TRUE,
                            !.handle = NullPtr, !.err = ErrInvalidConfig])
            /\ UNCHANGED engineVars
       ELSE /\ engAlloc' = "constructing"
            /\ model_path' = safe_string_copy(cfg)
            /\ ready' = FALSE
            /\ next_request_id' = 1
            /\ active_requests' = EmptyMap
            /\ built' = 0
            /\ Commit(t, [Entered("create") EXCEPT !.cfg = cfg, !.pc = "c_build"])
            /\ UNCHANGED <<lastError, teardown>>
  /\ UNCHANGED <<auxVars, modelVars, variant, autoLog, hist>>

\* one backend construction step: it succeeds, or it ends the creation (the
\* unique_ptr destroys the engine object, nullptr is returned)
CreateStep(t) ==
  /\ At(t, "c_build")
  /\ built < Len(BuildSteps(variant))
  /\ built # ReadyAt(variant) \/ ready
  /\ \E outcome \in StepOutcomes(BuildSteps(variant)[built + 1]) :
       LET msg == StepError(BuildSteps(variant)[built + 1], outcome) IN
       IF msg = NoError
       THEN /\ built' = built + 1
            /\ UNCHANGED <<lastError, engAlloc, model_path, ready, th, hist>>
       ELSE /\ lastError' = msg
            /\ engAlloc' = "none"
            /\ model_path' = ""
            /\ ready' = FALSE
            /\ built' = 0
            /\ hist' = [hist EXCEPT !.failedWhileReady = @ \/ ready]
            /\ Commit(t, [th[t] EXCEPT !.pc = "idle", !.returned = TRUE,
                                       !.handle = NullPtr, !.err = msg,
                                       !.backendFault = (outcome = "throw")])
  /\ UNCHANGED <<auxVars, modelVars, variant, next_request_id, active_requests, teardown, autoLog>>

\* engine->ready = true
CreateMarkReady(t) ==
  /\ At(t, "c_build")
  /\ built = ReadyAt(variant)
  /\ ~ready
  /\ ready' = TRUE
  /\ UNCHANGED <<auxVars, modelVars, variant, model_path, lastError, engAlloc, next_request_id, active_requests,
                 built, teardown, th, autoLog, hist>>

\* return engine.release(): the caller, and through it every thread, has the handle
CreateReturn(t) ==
  /\ At(t, "c_build")
  /\ built = Len(BuildSteps(variant))
  /\ ready
  /\ engAlloc' = "live"
  /\ Commit(t, [th[t] EXCEPT !.pc = "idle", !.returned = TRUE, !.handle = "engine"])
  /\ UNCHANGED <<auxVars, modelVars, variant, model_path, lastError, ready, next_request_id, active_requests,
                 built, teardown, autoLog, hist>>

(* ------------------------- destroy_engine ----------------------------- *)
\* entry: if (engine) ...; the handle is one create_engine returned; the
\* caller may pass one it has already destroyed
DestroyCall(t) ==
  /\ At(t, "idle")
  /\ variant \in Variants
  /\ \E nullArg \in NullArgsOf(t, {"engine"}) :
       IF ~DeleteActs(nullArg = "engine")
       THEN /\ Commit(t, [Entered("destroy") EXCEPT !.engNull = TRUE, !.returned = TRUE])
            /\ UNCHANGED teardown
       ELSE /\ engAlloc = "live" \/ (t = Observed /\ engAlloc = "freed")
            /\ Commit(t, [Entered("destroy") EXCEPT !.pc = "d_store",
                             !.engNull = (nullArg = "engine"),
                             !.obsAfterDestroy = (engAlloc = "freed")])
            /\ teardown' = Advance("entered")
  /\ UNCHANGED <<auxVars, modelVars, variant, model_path, lastError, engAlloc, ready, next_request_id,
                 active_requests, built, autoLog, hist>>

\* engine->ready = false; on the released object the store is undefined: it
\* writes into memory the engine no longer owns
DestroyStore(t) ==
  /\ At(t, "d_store")
  /\ IF engAlloc = "live"
     THEN ready' = FALSE /\ teardown' = Advance("unready")
     ELSE UNCHANGED <<ready, teardown>>
  /\ th' = [th EXCEPT ![t].pc = IF variant = "wrapper" THEN "d_clear" ELSE "d_delete",
                      ![t].obsReleased = @ \/ engAlloc # "live"]
  /\ UNCHANGED <<auxVars, modelVars, variant, model_path, lastError, engAlloc, next_request_id, active_requests,
                 built, autoLog, hist>>

\* wrapper: { lock_guard lock(request_mutex); active_requests.clear(); }
DestroyClear(t) ==
  /\ At(t, "d_clear")
  /\ IF engAlloc = "live"
     THEN active_requests' = EmptyMap /\ teardown' = Advance("drained")
     ELSE UNCHANGED <<active_requests, teardown>>
  /\ th' = [th EXCEPT ![t].pc = "d_delete", ![t].obsReleased = @ \/ engAlloc # "live"]
  /\ UNCHANGED <<auxVars, modelVars, variant, model_path, lastError, engAlloc, ready, next_request_id, built,
                 autoLog, hist>>

\* delete engine: the object, with its fields, its request table and its
\* backend, is released; a second delete of the same object is undefined
DestroyDelete(t) ==
  /\ At(t, "d_delete")
  /\ \E out \in TeardownOutcomes(variant) :
     IF engAlloc = "live" /\ out = "throw"
     THEN /\ th' = Terminated(t, "destroy")
          /\ UNCHANGED <<engAlloc, teardown, model_path, ready, next_request_id,
                         active_requests>>
     ELSE IF engAlloc = "live"
     THEN /\ engAlloc' = "freed"
          /\ teardown' = "released"
          /\ model_path' = ""
          /\ ready' = FALSE
          /\ next_request_id' = 1
          /\ active_requests' = EmptyMap
          /\ Commit(t, [th[t] EXCEPT !.pc = "idle", !.returned = TRUE])
     ELSE /\ Commit(t, Undefined)
          /\ UNCHANGED <<engAlloc, teardown, model_path, ready, next_request_id,
                         active_requests>>
  /\ UNCHANGED <<auxVars, modelVars, variant, lastError, built, autoLog, hist>>

(* ----------------------- is_engine_ready ------------------------------ *)
\* return engine && engine->ready.load(); a load from the released object is
\* undefined: either value may come back
IsReady(t) ==
  /\ At(t, "idle")
  /\ variant \in Variants
  /\ t = Observed
  /\ \E nullArg \in NullArgsOf(t, {"engine"}), garbage \in BOOLEAN :
       /\ nullArg = "none" => HandlePublished
       /\ (nullArg = "engine" \/ engAlloc # "freed") => garbage = FALSE
       /\ Commit(t, [Entered("is_ready") EXCEPT
                   !.engNull = (nullArg = "engine"), !.returned = TRUE,
                   !.rdy = IF nullArg = "engine" THEN FALSE
                           ELSE IF engAlloc = "freed" THEN garbage ELSE ready,
                   !.obsAfterDestroy = (nullArg = "none" /\ TearingDown),
                   !.obsReleased = (nullArg = "none" /\ engAlloc = "freed")])
  /\ UNCHANGED <<auxVars, modelVars, variant, lastError, engineVars, autoLog, hist>>

(* ---------------------------- generate -------------------------------- *)
\* the text the mock implementations generate for a prompt; hybrid's
\* generate_response answers a prompt containing "hello" with a fixed greeting
\* and any other prompt with a text quoting it (max_new_tokens = 50, as the
\* test passes, cuts neither)
MockText(v, prompt) ==
  CASE v = "simplified" -> "Mock response from TurboMind"
    [] v = "impl" -> "This is a mock response to: " \o prompt
    [] v = "real" -> "This is a generated response to: " \o prompt
    [] OTHER -> IF prompt = "Hello, world!"
                THEN "Hello! I'm an AI assistant powered by TurboMind. How can I help you today?"
                ELSE "Thank you for your question. This is a response generated by TurboMind engine. The prompt was: " \o prompt

\* "Fill response": the fields generate writes into *response on success
Filled(v, id, req, r) ==
  IF v = "wrapper"
  THEN [request_id |-> id,
        text |-> allocate_string(r.text),
        input_tokens |-> r.input_tokens,
        output_tokens |-> r.output_tokens,
        finished |-> r.finished,
        error_code |-> r.error_code,
        error_message |-> IF r.error_message = "" THEN NullPtr
                          ELSE allocate_string(r.error_message)]
  ELSE LET prompt == safe_string_copy(req.prompt)
           text == MockText(v, prompt) IN
       [request_id |-> id,
        text |-> allocate_string(text),
        input_tokens |-> IF v = "simplified" THEN 10 ELSE Len(prompt) \div 4,
        output_tokens |-> IF v = "simplified" THEN 5 ELSE Len(text) \div 4,
        finished |-> TRUE,
        error_code |-> 0,
        error_message |-> NullPtr]

\* what *response holds after a failing path of generate: what it held
AfterFailureZeroed(resp) == ZeroResp
AfterFailure(resp) == resp

\* the message of the readiness check
NotReadyMessageInvalid == ErrInvalidParams
NotReadyMessage == ErrNotReady

\* generate_batch goes on to the next item iff the item's result is 0
BatchContinuesAlways(result) == TRUE
BatchContinues(result) == result = 0

\* the thread record after generate on the current item has returned `result`:
\* generate_batch goes to the next item or returns the result
ItemDone(rec, result) ==
  IF rec.op = "batch" /\ rec.idx < rec.n /\ BatchContinues(result)
  THEN [rec EXCEPT !.pc = "g_ready", !.idx = @ + 1, !.tmId = 0, !.consumed = FALSE,
                   !.inserted = FALSE, !.dispatched = FALSE, !.stale = FALSE]
  ELSE [rec EXCEPT !.pc = "idle", !.returned = TRUE, !.ret = result]

\* the thread record after generate on the current item set `msg` and returned -1
Failed(rec, msg) ==
  ItemDone([rec EXCEPT !.err = msg,
                       !.failedAt = IF @ = 0 THEN rec.idx ELSE @,
                       !.resps = IF rec.resps = <<>> THEN <<>>
                                 ELSE [@ EXCEPT ![rec.idx] = AfterFailure(@)]], -1)

\* entry of turbomind_generate: the null checks
GenerateCall(t) ==
  /\ At(t, "idle")
  /\ variant \in Variants
  /\ \E nullArg \in NullArgsOf(t, {"engine", "request", "response"}),
        req \in RequestsOf(t, "generate"), r0 \in InitialRespsOf(t) :
       LET rec == [Entered("generate") EXCEPT
                     !.engNull = (nullArg = "engine"),
                     !.n = 1,
                     !.reqs = IF nullArg = "request" THEN <<>> ELSE <<req>>,
                     !.resps = IF nullArg = "response" THEN <<>> ELSE <<r0>>,
                     !.resps0 = IF nullArg = "response" THEN <<>> ELSE <<r0>>,
                     !.idx = 1] IN
       /\ nullArg # "engine" => engAlloc = "live"
       /\ IF nullArg # "none"
          THEN /\ req.request_id = 0 /\ req.prompt = "Hello, world!"
               /\ lastError' = ErrInvalidParams
               /\ Commit(t, Failed(rec, ErrInvalidParams))
          ELSE /\ Commit(t, [rec EXCEPT !.pc = "g_ready"])
               /\ UNCHANGED lastError
  /\ UNCHANGED <<auxVars, modelVars, variant, engineVars, autoLog, hist>>

\* entry of turbomind_generate_batch: its checks, then the loop begins; the
\* model draws requests[i] when the loop reaches it
BatchCall(t) ==
  /\ At(t, "idle")
  /\ variant \in Variants
  /\ t = Observed
  /\ \E nullArg \in NullArgsOf(t, {"engine", "requests", "responses"}),
        n \in 0..MaxBatch, r0 \in InitialRespsOf(t) :
       LET rec == [Entered("batch") EXCEPT
                     !.engNull = (nullArg = "engine"),
                     !.n = n,
                     !.resps = IF nullArg = "responses" THEN <<>> ELSE [i \in 1..n |-> r0],
                     !.resps0 = IF nullArg = "responses" THEN <<>> ELSE [i \in 1..n |-> r0],
                     !.idx = 1] IN
       /\ nullArg # "engine" => engAlloc = "live"
       /\ IF nullArg # "none" \/ n <= 0
          THEN /\ lastError' = ErrInvalidBatch
               /\ Commit(t, [rec EXCEPT !.returned = TRUE, !.ret = -1,
                                        !.err = ErrInvalidBatch])
          ELSE /\ Commit(t, [rec EXCEPT !.pc = "g_ready"])
               /\ UNCHANGED lastError
  /\ UNCHANGED <<auxVars, modelVars, variant, engineVars, autoLog, hist>>

\* if (!engine->ready.load()) on the current item; a load from the released
\* object may give either value
GenReady(t) ==
  /\ At(t, "g_ready")
  /\ \E garbage \in BOOLEAN, req \in RequestsOf(t, th[t].op) :
       /\ engAlloc # "freed" => garbage = FALSE
       /\ Len(th[t].reqs) >= th[t].idx => req = th[t].reqs[th[t].idx]
       /\ LET seen == IF engAlloc = "freed" THEN garbage ELSE ready
              rec == [th[t] EXCEPT !.reqs = IF Len(@) >= th[t].idx THEN @
                                            ELSE Append(@, req)] IN
          IF seen
          THEN /\ Commit(t, [rec EXCEPT !.pc = IF variant = "wrapper" THEN "g_id"
                                               ELSE "g_body"])
               /\ UNCHANGED lastError
          ELSE /\ lastError' = NotReadyMessage
               /\ Commit(t, Failed([rec EXCEPT !.notReady = TRUE], NotReadyMessage))
  /\ UNCHANGED <<auxVars, modelVars, variant, engineVars, autoLog, hist>>

\* request_id > 0 ? request_id : engine->next_request_id++ for a request with
\* request_id = rid; fetch_add on the released object reads (and writes) whatever
\* is there: `garbage`
FromReleased(rid) == engAlloc = "freed" /\ rid <= 0
IdTaken(rid, garbage) ==
  IF FromReleased(rid) THEN garbage ELSE AssignedId(rid, next_request_id)
TakeId(rid, garbage) ==
  /\ garbage \in 1..MaxAutoId
  /\ ~FromReleased(rid) => garbage = 1
  /\ (rid <= 0 /\ engAlloc # "freed") =>
       next_request_id <= MaxAutoId /\ Len(autoLog) < MaxAutoId
  /\ next_request_id' = IF FromReleased(rid) THEN next_request_id
                        ELSE CounterAfter(rid, next_request_id)
  /\ autoLog' = IF rid <= 0 /\ engAlloc # "freed"
                THEN Append(autoLog, AssignedId(rid, next_request_id))
                ELSE autoLog
\* did that expression advance the live counter?
Consumes(rid) == ~FromReleased(rid) /\ CounterAfter(rid, next_request_id) # next_request_id

\* wrapper: tm_request->id = ...
GenId(t) ==
  /\ At(t, "g_id")
  /\ \E garbage \in 1..MaxAutoId :
       LET rid == th[t].reqs[th[t].idx].request_id IN
       /\ TakeId(rid, garbage)
       /\ Commit(t, [th[t] EXCEPT !.pc = "g_insert",
                                  !.tmId = IdTaken(rid, garbage),
                                  !.stale = FromReleased(rid),
                                  !.consumed = Consumes(rid)])
  /\ UNCHANGED <<auxVars, modelVars, variant, model_path, lastError, engAlloc, ready, active_requests, built,
                 teardown, hist>>

\* wrapper: { lock_guard lock(request_mutex); active_requests[id] = tm_request; }
GenInsert(t) ==
  /\ At(t, "g_insert")
  /\ IF engAlloc = "live"
     THEN /\ active_requests' = [i \in DOMAIN active_requests \cup {th[t].tmId} |->
                                   IF i = th[t].tmId THEN t ELSE active_requests[i]]
          /\ Commit(t, [th[t] EXCEPT !.pc = "g_dispatch", !.inserted = TRUE])
     ELSE /\ \E crash \in BOOLEAN :
               Commit(t, IF crash THEN Undefined ELSE [th[t] EXCEPT !.pc = "g_dispatch"])
          /\ UNCHANGED active_requests
  /\ hist' = [hist EXCEPT !.usedAfterTeardown = @ \/ TearingDown]
  /\ UNCHANGED <<auxVars, modelVars, variant, model_path, lastError, engAlloc, ready, next_request_id, built,
                 teardown, autoLog>>

\* wrapper: engine->engine->Generate(tm_request).  On the released engine the
\* call is undefined: it may crash, or run on what is left of the backend.
\* Generate returns a response (generate fills *response), returns no
\* response, or throws (caught at the boundary); the other thread's request
\* is answered with a finished response
GenDispatch(t) ==
  /\ At(t, "g_dispatch")
  /\ hist' = [hist EXCEPT !.usedAfterTeardown = @ \/ TearingDown]
  /\ \E kind \in BackendKinds \cup {"crash"}, r \in BackendResponses :
       LET rec == th[t] IN
       /\ kind # "response" => r.finished
       /\ kind = "crash" => engAlloc # "live"
       /\ t # Observed => kind = "response" /\ r.finished
       /\ CASE kind = "crash" ->
                /\ Commit(t, Undefined)
                /\ UNCHANGED lastError
           [] kind = "null" ->
                /\ lastError' = ErrGenerationFailed
                /\ Commit(t, Failed([rec EXCEPT !.dispatched = TRUE], ErrGenerationFailed))
           [] kind = "throw" ->
                /\ lastError' = ErrGenException
                /\ Commit(t, Failed([rec EXCEPT !.dispatched = TRUE,
                                                !.backendFault = TRUE], ErrGenException))
           [] OTHER ->
                /\ Commit(t, [rec EXCEPT
                      !.pc = "g_erase",
                      !.dispatched = TRUE,
                      !.resps[rec.idx] = Filled(variant, rec.tmId, rec.reqs[rec.idx], r),
                      !.ids = Append(@, rec.tmId),
                      !.outs = Append(@, r)])
                /\ UNCHANGED lastError
  /\ UNCHANGED <<auxVars, modelVars, variant, engineVars, autoLog>>

\* wrapper: { lock_guard lock(request_mutex); active_requests.erase(id); } return 0;
GenErase(t) ==
  /\ At(t, "g_erase")
  /\ IF engAlloc = "live"
     THEN /\ active_requests' = [i \in DOMAIN active_requests \ {th[t].tmId} |->
                                   active_requests[i]]
          /\ Commit(t, ItemDone(th[t], 0))
     ELSE /\ \E crash \in BOOLEAN :
               Commit(t, IF crash THEN Undefined ELSE ItemDone(th[t], 0))
          /\ UNCHANGED active_requests
  /\ hist' = [hist EXCEPT !.usedAfterTeardown = @ \/ TearingDown]
  /\ UNCHANGED <<auxVars, modelVars, variant, model_path, lastError, engAlloc, ready, next_request_id, built,
                 teardown, autoLog>>

\* the mocks: the try block of generate (the prompt check where there is one,
\* the request ID, the response)
GenBody(t) ==
  /\ At(t, "g_body")
  /\ LET rec == th[t]
         req == rec.reqs[rec.idx] IN
     IF ChecksEmptyPrompt(variant) /\ safe_string_copy(req.prompt) = ""
     THEN /\ lastError' = ErrEmptyPrompt
          /\ Commit(t, Failed(rec, ErrEmptyPrompt))
          /\ UNCHANGED <<next_request_id, autoLog>>
     ELSE /\ \E garbage \in 1..MaxAutoId :
               LET id == IdTaken(req.request_id, garbage) IN
               /\ TakeId(req.request_id, garbage)
               /\ Commit(t, ItemDone(
                           [rec EXCEPT !.tmId = id,
                                       !.stale = FromReleased(req.request_id),
                                       !.consumed = Consumes(req.request_id),
                                       !.resps[rec.idx] = Filled(variant, id, req, NoBackend),
                                       !.ids = Append(@, id),
                                       !.outs = Append(@, NoBackend)], 0))
          /\ UNCHANGED lastError
  /\ UNCHANGED <<auxVars, modelVars, variant, model_path, engAlloc, ready, active_requests, built, teardown, hist>>

(* ------------------------- get_model_info ----------------------------- *)
\* ModelInfo model_info = {};
ZeroInfo ==
  [model_name |-> NullPtr, model_type |-> NullPtr, vocab_size |-> 0,
   hidden_size |-> 0, num_layers |-> 0, max_position_embeddings |-> 0]

\* path.substr(path.find_last_of("/\\") + 1), or the path when it has no slash
BaseName(path) == IF path = "/m" THEN "m" ELSE path

\* what turbomind::Engine::GetModelConfig hands back (wrapper)
BackendModelConfig ==
  [model_name |-> "backend-model", vocab_size |-> 32000, hidden_size |-> 4096,
   num_layers |-> 32, max_position_embeddings |-> 2048]

\* the engine's model-info members: the struct's defaults; in real they are
\* zero unless getParams gave parameters at creation (`params`)
EngineInfo(v, path, params) ==
  [model_name |-> IF v = "simplified" THEN "Mock-Model" ELSE BaseName(path),
   vocab_size |-> IF v = "real" /\ ~params THEN 0 ELSE 32000,
   hidden_size |-> IF v = "real" /\ ~params THEN 0 ELSE 4096,
   num_layers |-> IF v = "real" /\ ~params THEN 0 ELSE 32,
   max_position_embeddings |-> IF v = "real" /\ ~params THEN 0 ELSE 2048]

\* the fields get_model_info writes into *info
InfoFilled(src) ==
  [model_name |-> allocate_string(src.model_name),
   model_type |-> allocate_string("llm"),
   vocab_size |-> src.vocab_size,
   hidden_size |-> src.hidden_size,
   num_layers |-> src.num_layers,
   max_position_embeddings |-> src.max_position_embeddings]

\* if (!engine->ready.load()): does get_model_info refuse?
InfoRefusesInverted(flag) == flag
InfoRefuses(flag) == ~flag

\* entry of turbomind_get_model_info: the null checks and the readiness check
InfoCall(t) ==
  /\ At(t, "idle")
  /\ t = Observed
  /\ variant \in Variants
  /\ \E nullArg \in NullArgsOf(t, {"engine", "info"}) :
       LET rec == [Entered("model_info") EXCEPT
                     !.engNull = (nullArg = "engine"),
                     !.infos = IF nullArg = "info" THEN <<>> ELSE <<ZeroInfo>>,
                     !.infos0 = IF nullArg = "info" THEN <<>> ELSE <<ZeroInfo>>] IN
       /\ nullArg # "engine" => engAlloc = "live"
       /\ IF nullArg # "none"
          THEN /\ lastError' = ErrInvalidParams
               /\ Commit(t, [rec EXCEPT !.returned = TRUE, !.ret = -1,
                                        !.err = ErrInvalidParams])
          ELSE IF InfoRefuses(ready)
          THEN /\ lastError' = ErrNotReady
               /\ Commit(t, [rec EXCEPT !.returned = TRUE, !.ret = -1,
                                        !.err = ErrNotReady, !.notReady = TRUE])
          ELSE /\ Commit(t, [rec EXCEPT !.pc = "i_body"])
               /\ UNCHANGED lastError
  /\ UNCHANGED <<auxVars, modelVars, variant, engineVars, autoLog, hist>>

\* the try block of get_model_info: wrapper asks the backend for its model
\* config (it answers or throws), the others copy the engine's members; on the
\* released engine the reads are undefined: the call may crash, or copy what
\* is left there
InfoBody(t) ==
  /\ At(t, "i_body")
  /\ \E kind \in {"config", "throw", "crash"}, params \in BOOLEAN :
       LET rec == th[t] IN
       /\ kind = "throw" => variant = "wrapper"
       /\ kind = "crash" => engAlloc # "live"
       /\ variant # "real" => params
       /\ CASE kind = "crash" ->
                /\ Commit(t, Undefined)
                /\ UNCHANGED lastError
           [] kind = "throw" ->
                /\ lastError' = ErrInfoException
                /\ Commit(t, [rec EXCEPT !.pc = "idle", !.returned = TRUE, !.ret = -1,
                                         !.err = ErrInfoException,
                                         !.backendFault = TRUE])
           [] OTHER ->
                /\ Commit(t, [rec EXCEPT
                      !.pc = "idle", !.returned = TRUE, !.ret = 0,
                      !.infos = <<InfoFilled(IF variant = "wrapper" THEN BackendModelConfig
                                             ELSE EngineInfo(variant, model_path, params))>>])
                /\ UNCHANGED lastError
  /\ UNCHANGED <<auxVars, modelVars, variant, engineVars, autoLog, hist>>

(* ------------------- generate_async, get_response --------------------- *)
\* the message each of the two unimplemented operations sets
StubMessageInvalid(op) == ErrInvalidParams
StubMessage(op) == IF op = "generate_async" THEN ErrAsyncGenerate ELSE ErrAsyncResponse

\* turbomind_generate_async(engine, request): no argument is looked at; a
\* non-null handle is one create_engine returned, destroyed or not
GenerateAsync(t) ==
  /\ At(t, "idle")
  /\ t = Observed
  /\ variant \in Variants
  /\ \E nullArg \in NullArgsOf(t, {"engine", "request"}), req \in EnvRequests :
       /\ nullArg # "engine" => HandlePublished
       /\ lastError' = StubMessage("generate_async")
       /\ Commit(t, [Entered("generate_async") EXCEPT
                       !.engNull = (nullArg = "engine"),
                       !.reqs = IF nullArg = "request" THEN <<>> ELSE <<req>>,
                       !.returned = TRUE, !.ret = -1,
                       !.err = StubMessage("generate_async")])
  /\ UNCHANGED <<auxVars, modelVars, variant, engineVars, autoLog, hist>>

\* turbomind_get_response(engine, request_id, response): likewise; the caller
\* passes a response struct holding an earlier result
GetResponse(t) ==
  /\ At(t, "idle")
  /\ t = Observed
  /\ variant \in Variants
  /\ \E nullArg \in NullArgsOf(t, {"engine", "response"}), r0 \in {StaleResp} :
       /\ nullArg # "engine" => HandlePublished
       /\ lastError' = StubMessage("get_response")
       /\ Commit(t, [Entered("get_response") EXCEPT
                       !.engNull = (nullArg = "engine"),
                       !.resps = IF nullArg = "response" THEN <<>> ELSE <<r0>>,
                       !.resps0 = IF nullArg = "response" THEN <<>> ELSE <<r0>>,
                       !.returned = TRUE, !.ret = -1,
                       !.err = StubMessage("get_response")])
  /\ UNCHANGED <<auxVars, modelVars, variant, engineVars, autoLog, hist>>

(* ------------------ free_response, free_model_info -------------------- *)
\* the blocks one application of free_response releases: delete[] (free) of a
\* null pointer releases nothing
ResponseReleased(resp) == {f \in {"text", "error_message"} : resp[f] # NullPtr}

\* *response after free_response: wrapper and impl null the two pointers they
\* released, the others memset the struct to zero
FreedResponseDangling(v, resp) == resp
FreedResponse(v, resp) ==
  IF v \in {"wrapper", "impl"}
  THEN [resp EXCEPT !.text = NullPtr, !.error_message = NullPtr]
  ELSE ZeroResp

\* the same for free_model_info
InfoReleased(info) == {f \in {"model_name", "model_type"} : info[f] # NullPtr}
FreedInfoDangling(v, info) == info
FreedInfo(v, info) ==
  IF v \in {"wrapper", "impl"}
  THEN [info EXCEPT !.model_name = NullPtr, !.model_type = NullPtr]
  ELSE ZeroInfo

\* turbomind_free_response(&response) on the struct the caller passed to the
\* generate call it has been returned from
FreeResponse(t) ==
  /\ t = Observed
  /\ th[t].returned
  /\ th[t].op = "generate"
  /\ th[t].resps # <<>>
  /\ th[t].frees < MaxFrees
  /\ th' = [th EXCEPT ![t].frees = @ + 1,
                      ![t].released = Append(@, ResponseReleased(th[t].resps[1])),
                      ![t].resps = <<FreedResponse(variant, th[t].resps[1])>>]
  /\ UNCHANGED <<auxVars, modelVars, variant, lastError, engineVars, autoLog, hist>>

\* turbomind_free_model_info(&model_info), likewise
FreeModelInfo(t) ==
  /\ t = Observed
  /\ th[t].returned
  /\ th[t].op = "model_info"
  /\ th[t].infos # <<>>
  /\ th[t].frees < MaxFrees
  /\ th' = [th EXCEPT ![t].frees = @ + 1,
                      ![t].released = Append(@, InfoReleased(th[t].infos[1])),
                      ![t].infos = <<FreedInfo(variant, th[t].infos[1])>>]
  /\ UNCHANGED <<auxVars, modelVars, variant, lastError, engineVars, autoLog, hist>>

(* ======================= one tensor in full ============================ *)
\* TurboMindDataType
DataTypes ==
  {"TM_TYPE_INVALID", "TM_TYPE_BOOL", "TM_TYPE_UINT8", "TM_TYPE_UINT16",
   "TM_TYPE_UINT32", "TM_TYPE_UINT64", "TM_TYPE_INT8", "TM_TYPE_INT16",
   "TM_TYPE_INT32", "TM_TYPE_INT64", "TM_TYPE_FP16", "TM_TYPE_FP32",
   "TM_TYPE_FP64", "TM_TYPE_BF16"}

\* the shapes the caller passes: ndim dimensions, each 0..MaxDim
MaxRank == 2
MaxDim == 2
Shapes(ndim) == [1..ndim -> 0..MaxDim]

\* size_bytes = 1; for (i < ndim) size_bytes *= shape_ptr[i]; (size_t: the
\* products of the shapes drawn here stay far below 2^64)
RECURSIVE ShapeProduct(_)
ShapeProduct(shape) ==
  IF shape = <<>> THEN 1
  ELSE ShapeProduct(SubSeq(shape, 1, Len(shape) - 1)) * shape[Len(shape)]

\* switch (dt) of the constructor: the factor size_bytes is multiplied by
ElementBytes(dt) ==
  CASE dt = "TM_TYPE_INT32" -> 4
    [] dt = "TM_TYPE_FP16" -> 2
    [] dt = "TM_TYPE_FP32" -> 4
    [] OTHER -> 4

\* TurboMindTensor::TurboMindTensor of turbomind_wrapper_minimal_test.cpp
TurboMindTensor(shape, dt) ==
  [shape |-> shape, dtype |-> dt,
   size_bytes |-> ShapeProduct(shape) * ElementBytes(dt)]

(* ====================== the low-level model path ====================== *)
\* the keys the caller uses in its tensor map
Keys == {"input_ids", "attention_mask"}
\* the model_dir values the caller passes: null, a directory, no directory
ModelDirs == {NullPtr, "/m", "/missing"}

\* the message turbomind_<op> sets when it refuses its arguments
NullMessage(op) ==
  CASE op = "create_model" -> "model_dir cannot be null"
    [] op \in {"create_shared_weights", "process_weights", "create_engine",
               "create_model_instance"} -> "model cannot be null"
    [] op = "create_tensor" -> "Invalid tensor parameters"
    [] op = "tensor_map_set" -> "Invalid parameters for tensor map set"
    [] op = "tensor_map_get" -> "Invalid parameters for tensor map get"
    [] op = "forward" -> "Invalid parameters for forward"
    [] op = "end_session" -> "Invalid instance for end session"
    [] op = "cancel_request" -> "Invalid instance for cancel request"
    [] op = "get_tensor_para_size" -> "Invalid model for tensor para size"
    [] op = "get_pipeline_para_size" -> "Invalid model for pipeline para size"
    [] op = "get_tensor_size" -> "Invalid tensor for size calculation"
    [] OTHER -> "Invalid tensors for copy"

\* the message the catch block of turbomind_<op> sets for the exception `what`
CatchMessage(op, what) ==
  (CASE op = "create_model" -> "Failed to create model: "
     [] op = "create_shared_weights" -> "Failed to create shared weights: "
     [] op = "process_weights" -> "Failed to process weights: "
     [] op = "create_engine" -> "Failed to create engine: "
     [] op = "create_model_instance" -> "Failed to create model instance: "
     [] op = "create_tensor" -> "Failed to create tensor: "
     [] op = "create_tensor_map" -> "Failed to create tensor map: "
     [] op = "tensor_map_set" -> "Failed to set tensor in map: "
     [] op = "tensor_map_get" -> "Failed to get tensor from map: "
     [] op = "forward" -> "Forward inference failed: "
     [] op = "end_session" -> "Failed to end session: "
     [] op = "cancel_request" -> "Failed to cancel request: "
     [] op = "get_tensor_para_size" -> "Failed to get tensor para size: "
     [] op = "get_pipeline_para_size" -> "Failed to get pipeline para size: "
     [] op = "set_device" -> "Failed to set device: "
     [] op = "get_tensor_size" -> "Failed to get tensor size: "
     [] OTHER -> "Failed to copy tensor: ") \o what

\* how the backend call in the try block of an operation can end: proper
\* calls LlamaTritonModel, ModelRequest, Tensor, TensorMap or CUDA, which
\* return or throw; minimal_test has no backend
Outcomes(v) == IF v = "proper" THEN {"ok", "throw"} ELSE {"ok"}

\* the caller is outside any call and has the low-level path
LowIdle(t) == At(t, "idle") /\ t = Observed /\ variant \in ModelVariants

\* the call begins: `nullArg` names the pointer argument that is null;
\* `handles` are its resource handles
LowEntered(op, nullArg, handles) ==
  [Entered(op) EXCEPT !.arg = nullArg, !.engNull = (nullArg \in handles)]

\* the call returns; it has set `msg` (NoError: it has set nothing)
EndsClearing(t, rec, msg) ==
  /\ lastError' = msg
  /\ Commit(t, [rec EXCEPT !.returned = TRUE, !.err = msg])
Ends(t, rec, msg) ==
  /\ lastError' = IF msg = NoError THEN lastError ELSE msg
  /\ Commit(t, [rec EXCEPT !.returned = TRUE, !.err = msg])

\* the operations that return a handle (null: failure) and those that return
\* an int status (negative: failure); the others return void, bool or a size
HandleOps == {"create", "create_model", "create_model_instance", "create_tensor",
              "create_tensor_map", "tensor_map_get", "forward"}
CodeOps == {"generate", "batch", "model_info", "generate_async", "get_response",
            "tensor_map_set", "get_tensor_para_size", "get_pipeline_para_size"}

\* the try block ended in catch (const std::exception&): the message, and the
\* failure value (nullptr, -1) where the operation has one
Caught(t, rec, what) ==
  Ends(t, [rec EXCEPT !.dispatched = TRUE, !.backendFault = TRUE,
                      !.ret = IF rec.op \in CodeOps THEN -1 ELSE 0],
       CatchMessage(rec.op, what))

\* turbomind_create_model: minimal_test's constructor throws when model_dir is
\* no directory
CreateModel(t) ==
  /\ LowIdle(t)
  /\ objs.model # "live"
  /\ \E dir \in ModelDirs, out \in Outcomes(variant) :
       LET rec == LowEntered("create_model", IF dir = NullPtr THEN "model_dir" ELSE "none", {}) IN
       /\ dir = NullPtr => out = "ok"
       /\ IF dir = NullPtr
          THEN Ends(t, rec, NullMessage("create_model")) /\ UNCHANGED objs
          ELSE IF variant = "minimal_test" /\ dir = "/missing"
          THEN /\ Ends(t, rec, CatchMessage("create_model",
                             "Model directory does not exist: " \o dir))
               /\ UNCHANGED objs
          ELSE IF out = "throw"
          THEN Caught(t, rec, "backend fault") /\ UNCHANGED objs
          ELSE /\ Ends(t, [rec EXCEPT !.handle = "model",
                                      !.dispatched = (variant = "proper")], NoError)
               /\ objs' = [objs EXCEPT !.model = "live"]
  /\ UNCHANGED <<auxVars, variant, engineVars, autoLog, hist, tensors>>

\* turbomind_create_shared_weights, turbomind_process_weights and
\* turbomind_create_engine(model, device_id, rank): proper only
ModelSetup(t) ==
  /\ LowIdle(t)
  /\ variant = "proper"
  /\ \E op \in {"create_shared_weights", "process_weights", "create_engine"},
        nullArg \in NullArgsOf(t, {"model"}), out \in Outcomes(variant) :
       LET rec == LowEntered(op, nullArg, {"model"}) IN
       /\ nullArg = "none" => objs.model = "live"
       /\ nullArg # "none" => out = "ok"
       /\ IF nullArg # "none" THEN Ends(t, rec, NullMessage(op))
          ELSE IF out = "throw" THEN Caught(t, rec, "backend fault")
          ELSE Ends(t, [rec EXCEPT !.dispatched = TRUE], NoError)
  /\ UNCHANGED <<auxVars, variant, engineVars, autoLog, hist, modelVars>>

\* turbomind_create_model_instance: in proper the constructor throws when
\* createModelInstance gives no request
CreateModelInstance(t) ==
  /\ LowIdle(t)
  /\ objs.instance # "live"
  /\ \E nullArg \in NullArgsOf(t, {"model"}), out \in Outcomes(variant) \cup {"null"} :
       LET rec == LowEntered("create_model_instance", nullArg, {"model"}) IN
       /\ nullArg = "none" => objs.model = "live"
       /\ nullArg # "none" => out = "ok"
       /\ out = "null" => variant = "proper"
       /\ IF nullArg # "none"
          THEN Ends(t, rec, NullMessage("create_model_instance")) /\ UNCHANGED objs
          ELSE IF out = "throw"
          THEN Caught(t, rec, "backend fault") /\ UNCHANGED objs
          ELSE IF out = "null"
          THEN Caught(t, rec, "Failed to create model instance") /\ UNCHANGED objs
          ELSE /\ Ends(t, [rec EXCEPT !.handle = "instance",
                                      !.dispatched = (variant = "proper")], NoError)
               /\ objs' = [objs EXCEPT !.instance = "live"]
  /\ UNCHANGED <<auxVars, variant, engineVars, autoLog, hist, tensors>>

\* turbomind_create_tensor(data, shape, ndim, ...)
CreateTensor(t) ==
  /\ LowIdle(t)
  /\ objs.tensor # "live"
  /\ \E nullArg \in NullArgsOf(t, {"data", "shape", "ndim"}), out \in Outcomes(variant) :
       LET rec == LowEntered("create_tensor", nullArg, {}) IN
       /\ nullArg # "none" => out = "ok"
       /\ IF nullArg # "none"
          THEN Ends(t, rec, NullMessage("create_tensor")) /\ UNCHANGED objs
          ELSE IF out = "throw"
          THEN Caught(t, rec, "backend fault") /\ UNCHANGED objs
          ELSE /\ Ends(t, [rec EXCEPT !.handle = "tensor",
                                      !.dispatched = (variant = "proper")], NoError)
               /\ objs' = [objs EXCEPT !.tensor = "live"]
  /\ UNCHANGED <<auxVars, variant, engineVars, autoLog, hist, tensors>>

\* turbomind_create_tensor_map()
CreateTensorMap(t) ==
  /\ LowIdle(t)
  /\ objs.tensor_map # "live"
  /\ \E out \in Outcomes(variant) :
       LET rec == LowEntered("create_tensor_map", "none", {}) IN
       IF out = "throw"
       THEN Caught(t, rec, "backend fault") /\ UNCHANGED modelVars
       ELSE /\ Ends(t, [rec EXCEPT !.handle = "tensor_map",
                                   !.dispatched = (variant = "proper")], NoError)
            /\ objs' = [objs EXCEPT !.tensor_map = "live"]
            /\ tensors' = {}
  /\ UNCHANGED <<auxVars, variant, engineVars, autoLog, hist>>

\* turbomind_tensor_map_set(tensor_map, key, tensor)
TensorMapSet(t) ==
  /\ LowIdle(t)
  /\ \E nullArg \in NullArgsOf(t, {"tensor_map", "key", "tensor"}), key \in Keys,
        out \in Outcomes(variant) :
       LET rec == [LowEntered("tensor_map_set", nullArg, {"tensor_map", "tensor"})
                     EXCEPT !.key = IF nullArg = "key" THEN NullPtr ELSE key] IN
       /\ nullArg # "tensor_map" => objs.tensor_map = "live"
       /\ nullArg # "tensor" => objs.tensor = "live"
       /\ nullArg # "none" => out = "ok"
       /\ IF nullArg # "none"
          THEN /\ Ends(t, [rec EXCEPT !.ret = -1], NullMessage("tensor_map_set"))
               /\ UNCHANGED tensors
          ELSE IF out = "throw"
          THEN Caught(t, rec, "backend fault") /\ UNCHANGED tensors
          ELSE /\ Ends(t, [rec EXCEPT !.dispatched = (variant = "proper")], NoError)
               /\ tensors' = tensors \cup {key}
  /\ UNCHANGED <<auxVars, variant, engineVars, autoLog, hist, objs>>

\* what turbomind_tensor_map_get returns for a key it found: minimal_test the
\* tensor set under it, proper nullptr ("TODO: Implement proper tensor extraction")
FoundTensorReturned(v) == "tensor"
FoundTensor(v) == IF v = "proper" THEN NullPtr ELSE "tensor"

\* turbomind_tensor_map_get(tensor_map, key)
TensorMapGet(t) ==
  /\ LowIdle(t)
  /\ \E nullArg \in NullArgsOf(t, {"tensor_map", "key"}), key \in Keys,
        out \in Outcomes(variant) :
       LET rec == [LowEntered("tensor_map_get", nullArg, {"tensor_map"})
                     EXCEPT !.key = IF nullArg = "key" THEN NullPtr ELSE key] IN
       /\ nullArg # "tensor_map" => objs.tensor_map = "live"
       /\ nullArg # "none" => out = "ok"
       /\ IF nullArg # "none"
          THEN Ends(t, rec, NullMessage("tensor_map_get"))
          ELSE IF out = "throw"
          THEN Caught(t, rec, "backend fault")
          ELSE IF key \notin tensors
          THEN Ends(t, [rec EXCEPT !.dispatched = (variant = "proper")],
                    "Tensor not found in map: " \o key)
          ELSE Ends(t, [rec EXCEPT !.dispatched = (variant = "proper"),
                                   !.handle = FoundTensor(variant)], NoError)
  /\ UNCHANGED <<auxVars, variant, engineVars, autoLog, hist, modelVars>>

\* turbomind_forward(instance, input_tensors, session, gen_config, stream_output)
Forward(t) ==
  /\ LowIdle(t)
  /\ objs.result # "live"
  /\ \E nullArg \in NullArgsOf(t, {"instance", "input_tensors", "session", "gen_config"}),
        out \in Outcomes(variant) :
       LET rec == LowEntered("forward", nullArg, {"instance", "input_tensors"}) IN
       /\ nullArg # "instance" => objs.instance = "live"
       /\ nullArg # "input_tensors" => objs.tensor_map = "live"
       /\ nullArg # "none" => out = "ok"
       /\ IF nullArg # "none"
          THEN Ends(t, rec, NullMessage("forward")) /\ UNCHANGED objs
          ELSE IF out = "throw"
          THEN Caught(t, rec, "backend fault") /\ UNCHANGED objs
          ELSE /\ Ends(t, [rec EXCEPT !.handle = "result",
                                      !.dispatched = (variant = "proper")], NoError)
               /\ objs' = [objs EXCEPT !.result = "live"]
  /\ UNCHANGED <<auxVars, variant, engineVars, autoLog, hist, tensors>>

\* turbomind_end_session(instance, session_id), turbomind_cancel_request(instance)
SessionSignal(t) ==
  /\ LowIdle(t)
  /\ \E op \in {"end_session", "cancel_request"},
        nullArg \in NullArgsOf(t, {"instance"}), out \in Outcomes(variant) :
       LET rec == LowEntered(op, nullArg, {"instance"}) IN
       /\ nullArg = "none" => objs.instance = "live"
       /\ nullArg # "none" => out = "ok"
       /\ IF nullArg # "none" THEN Ends(t, rec, NullMessage(op))
          ELSE IF out = "throw" THEN Caught(t, rec, "backend fault")
          ELSE Ends(t, [rec EXCEPT !.dispatched = (variant = "proper")], NoError)
  /\ UNCHANGED <<auxVars, variant, engineVars, autoLog, hist, modelVars>>

\* turbomind_get_tensor_para_size(model), turbomind_get_pipeline_para_size(model)
ParaSize(t) ==
  /\ LowIdle(t)
  /\ \E op \in {"get_tensor_para_size", "get_pipeline_para_size"},
        nullArg \in NullArgsOf(t, {"model"}), out \in Outcomes(variant) :
       LET rec == LowEntered(op, nullArg, {"model"}) IN
       /\ nullArg = "none" => objs.model = "live"
       /\ nullArg # "none" => out = "ok"
       /\ IF nullArg # "none" THEN Ends(t, [rec EXCEPT !.ret = -1], NullMessage(op))
          ELSE IF out = "throw" THEN Caught(t, rec, "backend fault")
          ELSE Ends(t, [rec EXCEPT !.dispatched = (variant = "proper"), !.ret = 1], NoError)
  /\ UNCHANGED <<auxVars, variant, engineVars, autoLog, hist, modelVars>>

\* turbomind_get_tensor_size(tensor): 0 for a null tensor
GetTensorSize(t) ==
  /\ LowIdle(t)
  /\ \E nullArg \in NullArgsOf(t, {"tensor"}), out \in Outcomes(variant) :
       LET rec == LowEntered("get_tensor_size", nullArg, {"tensor"}) IN
       /\ nullArg = "none" => objs.tensor = "live"
       /\ nullArg # "none" => out = "ok"
       /\ IF nullArg # "none" THEN Ends(t, rec, NullMessage("get_tensor_size"))
          ELSE IF out = "throw"
          THEN Caught(t, rec, "backend fault")
          ELSE Ends(t, [rec EXCEPT !.dispatched = (variant = "proper"),
                                   !.ret = TurboMindTensor(<<2>>, "TM_TYPE_INT32").size_bytes],
                    NoError)
  /\ UNCHANGED <<auxVars, variant, engineVars, autoLog, hist, modelVars>>

\* turbomind_copy_tensor(dst, src); src is the tensor itself or another
\* tensor of the caller, of the same byte size or not
CopyTensor(t) ==
  /\ LowIdle(t)
  /\ \E nullArg \in NullArgsOf(t, {"dst", "src"}), sameSize \in BOOLEAN,
        out \in Outcomes(variant) :
       LET rec == LowEntered("copy_tensor", nullArg, {"dst", "src"}) IN
       /\ objs.tensor = "live"
       /\ (nullArg # "none" \/ ~sameSize) => out = "ok"
       /\ nullArg # "none" => sameSize
       /\ IF nullArg # "none" THEN Ends(t, rec, NullMessage("copy_tensor"))
          ELSE IF ~sameSize
          THEN Ends(t, [rec EXCEPT !.dispatched = (variant = "proper")],
                    "Tensor size mismatch for copy")
          ELSE IF out = "throw" THEN Caught(t, rec, "backend fault")
          ELSE Ends(t, [rec EXCEPT !.dispatched = (variant = "proper")], NoError)
  /\ UNCHANGED <<auxVars, variant, engineVars, autoLog, hist, modelVars>>

\* turbomind_set_device(device_id): proper calls cudaSetDevice
SetDevice(t) ==
  /\ LowIdle(t)
  /\ \E out \in Outcomes(variant) :
       LET rec == LowEntered("set_device", "none", {}) IN
       IF out = "throw" THEN Caught(t, rec, "backend fault")
       ELSE Ends(t, [rec EXCEPT !.dispatched = (variant = "proper")], NoError)
  /\ UNCHANGED <<auxVars, variant, engineVars, autoLog, hist, modelVars>>

\* turbomind_destroy_<kind>(handle): delete handle; in proper the object owns
\* backend objects, whose destructors run under the delete
DestroyObject(t, kind) ==
  /\ LowIdle(t)
  /\ \E nullArg \in NullArgsOf(t, {kind}), out \in TeardownOutcomes(variant) :
       LET rec == LowEntered("destroy_" \o kind, nullArg, {kind}) IN
       /\ nullArg = "none" => objs[kind] = "live"
       /\ nullArg # "none" => out = "ok"
       /\ IF ~DeleteActs(nullArg # "none")
          THEN Ends(t, rec, NoError) /\ UNCHANGED modelVars
          ELSE IF out = "throw"
          THEN /\ th' = Terminated(t, rec.op)
               /\ UNCHANGED <<lastError, modelVars>>
          ELSE /\ Ends(t, [rec EXCEPT !.dispatched = (variant = "proper")], NoError)
               /\ objs' = [objs EXCEPT ![kind] = "freed"]
               /\ tensors' = IF kind = "tensor_map" THEN {} ELSE tensors
  /\ UNCHANGED <<auxVars, variant, engineVars, autoLog, hist>>

(* ------------------- one tensor in full: the calls --------------------- *)
\* turbomind_create_tensor(data, shape, ndim, dtype, ...) with data and shape
\* non-null: ndim <= 0 is refused
TensorCreate ==
  /\ tensor = NoObject
  /\ \E ndim \in 0..MaxRank, dt \in DataTypes :
       IF ndim <= 0
       THEN /\ lastError' = NullMessage("create_tensor")
            /\ UNCHANGED tensor
       ELSE /\ \E shape \in Shapes(ndim) : tensor' = <<TurboMindTensor(shape, dt)>>
            /\ UNCHANGED lastError
  /\ UNCHANGED <<lockVars, tsize, forwardVars, errorVars, convVars, variant, engineVars, th, autoLog, hist, modelVars>>

\* turbomind_get_tensor_size(tensor): return tensor->size_bytes
TensorGetSize ==
  /\ tensor # NoObject
  /\ tsize' = <<tensor[1].size_bytes>>
  /\ UNCHANGED <<lockVars, tensor, forwardVars, errorVars, convVars, callVars>>

\* turbomind_destroy_tensor(tensor)
TensorDestroy ==
  /\ tensor # NoObject
  /\ tensor' = NoObject
  /\ tsize' = NoObject
  /\ UNCHANGED <<lockVars, forwardVars, errorVars, convVars, callVars>>

(* ================= forward calls on one model instance ================= *)
\* TurboMindSession as the callers fill it: id, step, start_flag, end_flag
Sessions ==
  [id : SessionIds, step : {0}, start_flag : BOOLEAN, end_flag : BOOLEAN]

\* one ID list of TurboMindGenerationConfig as the caller fills it: which list,
\* its pointer (null or not) and its count
IdLists == [name : {"eos_ids", "stop_ids", "bad_ids"}, null : BOOLEAN, count : {-1, 0, 2}]
\* a generation config whose lists are all absent (null, 0) but for `l`
EmptyList == [name |-> "eos_ids", null |-> TRUE, count |-> 0]

\* if (gen_config->eos_ids && gen_config->eos_ids_count > 0) assign(...): the
\* number of IDs the backend config receives from the list
CopiedIds(l) == IF ~l.null /\ l.count > 0 THEN l.count ELSE 0

\* ft::SessionParam built from the caller's session: field by field
SessionParam(session) ==
  [id |-> session.id, step |-> session.step,
   start_flag |-> session.start_flag, end_flag |-> session.end_flag]

\* minimal_test: result->seq_len = static_cast<int>(session->id) * 10
MockSeqLenByStep(session) == session.step * 10
MockSeqLen(session) == session.id * 10

\* the session after a forward call with these flags has returned a result
SessionAfter(stage, session) ==
  IF session.end_flag /\ (session.start_flag \/ stage = "started") THEN "ended"
  ELSE IF session.start_flag THEN "started"
  ELSE stage

\* the forward call of thread t has ended with `rec`: Other goes on to its
\* next call, the result of Observed stays to be looked at
ForwardDone(t, rec) ==
  fw' = [fw EXCEPT ![t] = IF t = Observed THEN [rec EXCEPT !.pc = "returned"]
                          ELSE IdleForward]

\* turbomind_forward(instance, input_tensors, session, gen_config, stream):
\* the null checks; minimal_test then builds its mock result, proper builds
\* the backend's session and generation config and calls Forward
ForwardEnter(t) ==
  /\ fw[t].pc = "idle"
  /\ fw[Observed].pc # "returned"
  /\ \E nullArg \in NullArgsOf(t, {"instance", "input_tensors", "session", "gen_config"}),
        session \in Sessions, l \in IdLists :
       LET rec == [IdleForward EXCEPT !.arg = nullArg, !.session = <<session>>,
                                      !.list = <<l>>,
                                      !.afterEnd = (sess[session.id] = "ended")] IN
       /\ t # Observed => l = EmptyList
       /\ nullArg # "none" => l = EmptyList /\ session.start_flag /\ ~session.end_flag
       /\ IF nullArg # "none"
          THEN /\ lastError' = NullMessage("forward")
               /\ ForwardDone(t, [rec EXCEPT !.err = NullMessage("forward")])
               /\ UNCHANGED sess
          ELSE IF variant = "minimal_test"
          THEN /\ ForwardDone(t, [rec EXCEPT !.handle = "result",
                                             !.seq_len = MockSeqLen(session)])
               /\ sess' = [sess EXCEPT ![session.id] = SessionAfter(@, session)]
               /\ UNCHANGED lastError
          ELSE /\ fw' = [fw EXCEPT ![t] =
                           [rec EXCEPT !.pc = "backend",
                                       !.sent = <<[session |-> SessionParam(session),
                                                   list |-> l.name,
                                                   ids |-> CopiedIds(l)]>>]]
               /\ UNCHANGED <<lastError, sess>>
  /\ UNCHANGED <<lockVars, tensorVars, errorVars, convVars, variant, engineVars, th, autoLog, hist, modelVars>>

\* proper: instance->request->Forward(...) returns, or throws into the catch
\* block; the result is wrapped with TM_REQUEST_COMPLETED and seq_len 0
ForwardReturn(t) ==
  /\ fw[t].pc = "backend"
  /\ fw[Observed].pc # "returned"
  /\ \E out \in Outcomes(variant) :
       IF out = "throw"
       THEN /\ lastError' = CatchMessage("forward", "backend fault")
            /\ ForwardDone(t, [fw[t] EXCEPT !.err = CatchMessage("forward", "backend fault")])
            /\ UNCHANGED sess
       ELSE /\ ForwardDone(t, [fw[t] EXCEPT !.handle = "result"])
            /\ sess' = [sess EXCEPT ![fw[t].session[1].id] = SessionAfter(@, fw[t].session[1])]
            /\ UNCHANGED lastError
  /\ UNCHANGED <<lockVars, tensorVars, errorVars, convVars, variant, engineVars, th, autoLog, hist, modelVars>>

\* instance->request->End([](int){}, session_id) and instance->request->Cancel():
\* the number of calls into the backend one end_session or cancel_request
\* makes; minimal_test prints a line and has no backend
SignalsIssuedOnNull(v, nullArg) == IF v = "proper" THEN 1 ELSE 0
SignalsIssued(v, nullArg) == IF v = "proper" /\ nullArg = "none" THEN 1 ELSE 0

\* turbomind_end_session(instance, session_id), turbomind_cancel_request(instance),
\* whatever the forward calls of the other thread are doing: the null check,
\* the call into the backend (which returns or throws), the return
SignalCall(t) ==
  /\ fw[t].pc = "idle"
  /\ fw[Observed].pc # "returned"
  /\ \E op \in {"end_session", "cancel_request"}, nullArg \in NullArgsOf(t, {"instance"}),
        out \in Outcomes(variant) :
       LET rec == [IdleForward EXCEPT !.arg = nullArg, !.signal = op,
                                      !.signals = SignalsIssued(variant, nullArg)]
           msg == IF nullArg # "none" THEN NullMessage(op)
                  ELSE IF out = "throw" THEN CatchMessage(op, "backend fault")
                  ELSE NoError IN
       /\ nullArg # "none" => out = "ok"
       /\ lastError' = IF msg = NoError THEN lastError ELSE msg
       /\ ForwardDone(t, [rec EXCEPT !.err = msg])
  /\ UNCHANGED <<lockVars, sess, tensorVars, errorVars, convVars, variant, engineVars, th, autoLog, hist,
                 modelVars>>

\* the caller has looked at the result of its forward call
ForwardForget ==
  /\ fw[Observed].pc = "returned"
  /\ fw' = [fw EXCEPT ![Observed] = IdleForward]
  /\ UNCHANGED <<lockVars, sess, tensorVars, errorVars, convVars, callVars>>

(* ------------------- the error slot, character by character -------------- *)

\* the messages two failing operations leave
ErrorMessages == {"Engine not ready", "Invalid parameters"}

\* every file but turbomind_wrapper_minimal_test.cpp takes g_error_mutex in
\* set_last_error and in turbomind_get_last_error
HasMutex(v) == v # "minimal_test"

\* a failing operation calls set_last_error(msg): the lock is taken where
\* there is one
SetLastError(t) ==
  /\ ec[t].pc = "idle"
  /\ HasMutex(variant) => g_error_mutex = "free"
  /\ \E msg \in ErrorMessages :
       ec' = [ec EXCEPT ![t] = [pc |-> "assign", msg |-> msg, got |-> <<>>]]
  /\ g_error_mutex' = IF HasMutex(variant) THEN t ELSE g_error_mutex
  /\ UNCHANGED <<lockVars, g_last_error, completed, callVars, tensorVars, forwardVars, convVars>>

\* g_last_error = error: the characters are copied into the string's buffer
\* one after the other; the first part is written
AssignBegin(t) ==
  /\ ec[t].pc = "assign"
  /\ g_last_error' = <<ec[t].msg, g_last_error[2]>>
  /\ ec' = [ec EXCEPT ![t].pc = "assigning"]
  /\ UNCHANGED <<lockVars, g_error_mutex, completed, callVars, tensorVars, forwardVars, convVars>>

\* the rest is written; set_last_error returns and the lock_guard unlocks
AssignEnd(t) ==
  /\ ec[t].pc = "assigning"
  /\ g_last_error' = <<g_last_error[1], ec[t].msg>>
  /\ g_error_mutex' = IF HasMutex(variant) THEN "free" ELSE g_error_mutex
  /\ completed' = ec[t].msg
  /\ ec' = [ec EXCEPT ![t] = IdleError]
  /\ UNCHANGED <<lockVars, callVars, tensorVars, forwardVars, convVars>>

\* turbomind_get_last_error(): the lock is taken where there is one
GetLastError(t) ==
  /\ ec[t].pc = "idle"
  /\ HasMutex(variant) => g_error_mutex = "free"
  /\ ec' = [ec EXCEPT ![t].pc = "c_str"]
  /\ g_error_mutex' = IF HasMutex(variant) THEN t ELSE g_error_mutex
  /\ UNCHANGED <<lockVars, g_last_error, completed, callVars, tensorVars, forwardVars, convVars>>

\* return g_last_error.c_str(): the caller gets a pointer into the string's
\* buffer, and the lock_guard unlocks
GetLastErrorReturn(t) ==
  /\ ec[t].pc = "c_str"
  /\ ec' = [ec EXCEPT ![t].pc = "view"]
  /\ g_error_mutex' = IF HasMutex(variant) THEN "free" ELSE g_error_mutex
  /\ UNCHANGED <<lockVars, g_last_error, completed, callVars, tensorVars, forwardVars, convVars>>

\* the caller reads the message through the pointer, character by character:
\* what the buffer holds when each part is read
ReadBegin(t) ==
  /\ ec[t].pc = "view"
  /\ ec' = [ec EXCEPT ![t].pc = "reading", ![t].got = <<g_last_error[1]>>]
  /\ UNCHANGED <<lockVars, g_last_error, g_error_mutex, completed, callVars, tensorVars, forwardVars,
                 convVars>>

ReadEnd(t) ==
  /\ ec[t].pc = "reading"
  /\ ec' = [ec EXCEPT ![t].pc = "seen", ![t].got = <<ec[t].got[1], g_last_error[2]>>]
  /\ UNCHANGED <<lockVars, g_last_error, g_error_mutex, completed, callVars, tensorVars, forwardVars,
                 convVars>>

\* the caller drops the message it read
ErrorForget(t) ==
  /\ ec[t].pc = "seen"
  /\ ec' = [ec EXCEPT ![t] = IdleError]
  /\ UNCHANGED <<lockVars, g_last_error, g_error_mutex, completed, callVars, tensorVars, forwardVars,
                 convVars>>

(* ------------- request parameters and engine configuration --------------- *)

\* x > 0 ? x : d
OrDefault(x, d) == IF x > 0 THEN x ELSE d

\* the numeric sampling parameters of RequestParams and of
\* TurboMindGenerationConfig; the float ones are counted in tenths
SamplingFields == {"max_new_tokens", "temperature", "top_p", "top_k", "repetition_penalty"}
\* a negative, a zero and a positive value
SamplingValues == {-1, 0, 5}
\* 512, 0.7f, 0.8f, 40, 1.0f
SamplingDefault(f) ==
  CASE f = "max_new_tokens" -> 512
    [] f = "temperature" -> 7
    [] f = "top_p" -> 8
    [] f = "top_k" -> 40
    [] OTHER -> 10

\* generate path: what the backend request gets from the caller's request
create_generation_config(request) ==
  [f \in SamplingFields |-> OrDefault(request[f], SamplingDefault(f))]
\* forward path: generation_config.x = gen_config->x, field by field
generation_config(gen_config) == [f \in SamplingFields |-> gen_config[f]]

\* turbomind_generate builds the backend request
GenerateConvert ==
  /\ variant \in {"wrapper", "real"}
  /\ sampling = NoObject
  /\ \E request \in [SamplingFields -> SamplingValues] :
       sampling' = <<[req |-> request, sent |-> create_generation_config(request)]>>
  /\ UNCHANGED <<lockVars, config, callVars, tensorVars, forwardVars, errorVars>>

\* turbomind_forward builds the backend's generation config
ForwardConvert ==
  /\ variant = "proper"
  /\ sampling = NoObject
  /\ \E gen_config \in [SamplingFields -> SamplingValues] :
       sampling' = <<[req |-> gen_config, sent |-> generation_config(gen_config)]>>
  /\ UNCHANGED <<lockVars, config, callVars, tensorVars, forwardVars, errorVars>>

\* the call returns; the next request can be converted
SamplingForget ==
  /\ sampling # NoObject
  /\ sampling' = NoObject
  /\ UNCHANGED <<lockVars, config, callVars, tensorVars, forwardVars, errorVars>>

\* the fields of TurboMindConfig the engine is sized by
ConfigFields == {"tp", "session_len", "max_batch_size"}
\* negative, zero and two positive values
ConfigValues == {-1, 0, 1, 8}
\* 1, 2048, 32
ConfigDefault(f) ==
  CASE f = "tp" -> 1
    [] f = "session_len" -> 2048
    [] OTHER -> 32
\* the fields the engine object of each build has; the simplified engine has
\* model_path, model_type, ready, request_mutex and next_request_id only
StoredFields(v) == IF v = "simplified" THEN {} ELSE ConfigFields

\* turbomind_create_engine succeeds: what the engine object holds of the
\* configuration, as <<field, value>> pairs
StoreEngineConfig ==
  /\ config = NoObject
  /\ \E cfg \in [ConfigFields -> ConfigValues] :
       config' = <<[given |-> cfg,
                    stored |-> {<<f, OrDefault(cfg[f], ConfigDefault(f))>> :
                                  f \in StoredFields(variant)}]>>
  /\ UNCHANGED <<lockVars, sampling, callVars, tensorVars, forwardVars, errorVars>>

\* turbomind_destroy_engine: the engine object is gone
ReleaseEngineConfig ==
  /\ config # NoObject
  /\ config' = NoObject
  /\ UNCHANGED <<lockVars, sampling, callVars, tensorVars, forwardVars, errorVars>>

(* ------------------- the request lock of one engine ------------------- *)
\* turbomind_wrapper.cpp is the one file that takes request_mutex; the calls
\* below are generate, generate_batch and destroy_engine on one engine, cut
\* at the lock_guard scopes: a thread waiting for the lock, holding it, in the
\* backend call, or at the delete.  A thread that touches the engine after
\* its release is undefined ("ub"): it may crash, hang or carry on.

\* the positive request IDs the callers supply in their requests
GivenIds == {2, 3}

\* entry of generate, of generate_batch (`count` items) or of destroy_engine,
\* which stores ready = false before its lock_guard scope; the handle is
\* destroyed once
LockCall(t) ==
  /\ lk[t].pc = "idle"
  /\ engAlloc = "live"
  /\ \E op \in {"generate", "batch", "destroy"}, count \in 1..MaxBatch :
       /\ op # "batch" => count = 1
       /\ op = "destroy" => teardown = "no"
       /\ IF op = "destroy"
          THEN /\ lk' = [lk EXCEPT ![t].pc = "l_clear"]
               /\ ready' = FALSE
               /\ teardown' = Advance("unready")
          ELSE /\ lk' = [lk EXCEPT ![t] = [pc |-> "l_check", id |-> 0, left |-> count - 1]]
               /\ UNCHANGED <<ready, teardown>>
  /\ UNCHANGED <<request_mutex, tensorVars, forwardVars, errorVars, convVars, modelVars,
                 variant, lastError, engAlloc, model_path, next_request_id,
                 active_requests, built, th, autoLog, hist>>

\* the item of the call is over: generate_batch goes on to its next item after
\* a 0 and returns at the first other result
ItemEnd(rec, result) ==
  IF BatchContinues(result) /\ rec.left > 0
  THEN [pc |-> "l_check", id |-> 0, left |-> rec.left - 1]
  ELSE IdleLock

\* if (!engine->ready.load()) return -1; then the ID of the request is read
LockReady(t) ==
  /\ lk[t].pc = "l_check"
  /\ engAlloc = "live"
  /\ IF ready
     THEN /\ \E id \in GivenIds : lk' = [lk EXCEPT ![t].pc = "l_insert", ![t].id = id]
          /\ UNCHANGED lastError
     ELSE /\ lk' = [lk EXCEPT ![t] = ItemEnd(lk[t], -1)]
          /\ lastError' = NotReadyMessage
  /\ UNCHANGED <<request_mutex, tensorVars, forwardVars, errorVars, convVars, modelVars,
                 variant, engineVars, th, autoLog, hist>>

\* std::lock_guard<std::mutex> lock(engine->request_mutex): the thread blocks
\* until the mutex is free and takes it
LockAcquire(t) ==
  /\ lk[t].pc \in {"l_insert", "l_erase", "l_clear"}
  /\ engAlloc = "live"
  /\ request_mutex = "free"
  /\ request_mutex' = t
  /\ UNCHANGED <<lk, tensorVars, forwardVars, errorVars, convVars, callVars>>

\* the statement inside the lock_guard scope, and the unlock at its end:
\* active_requests[id] = tm_request, active_requests.erase(id) followed by
\* return 0, or active_requests.clear()
LockedAccess(t) ==
  /\ request_mutex = t
  /\ engAlloc = "live"
  /\ request_mutex' = "free"
  /\ CASE lk[t].pc = "l_insert" ->
            /\ active_requests' = [i \in DOMAIN active_requests \cup {lk[t].id} |->
                                     IF i = lk[t].id THEN t ELSE active_requests[i]]
            /\ lk' = [lk EXCEPT ![t].pc = "l_backend"]
            /\ UNCHANGED teardown
       [] lk[t].pc = "l_erase" ->
            /\ active_requests' = [i \in DOMAIN active_requests \ {lk[t].id} |->
                                     active_requests[i]]
            /\ lk' = [lk EXCEPT ![t] = ItemEnd(lk[t], 0)]
            /\ UNCHANGED teardown
       [] OTHER ->
            /\ active_requests' = EmptyMap
            /\ lk' = [lk EXCEPT ![t].pc = "l_delete"]
            /\ teardown' = Advance("drained")
  /\ UNCHANGED <<tensorVars, forwardVars, errorVars, convVars, modelVars, variant, lastError,
                 engAlloc, model_path, ready, next_request_id, built, th, autoLog, hist>>

\* engine->engine->Generate(tm_request), outside the lock_guard scopes: a
\* response leads to the erase, no response and an exception return -1 with
\* the entry left in the table
LockBackend(t) ==
  /\ lk[t].pc = "l_backend"
  /\ engAlloc = "live"
  /\ \E kind \in BackendKinds :
       CASE kind = "response" ->
              /\ lk' = [lk EXCEPT ![t].pc = "l_erase"]
              /\ UNCHANGED lastError
         [] kind = "null" ->
              /\ lk' = [lk EXCEPT ![t] = ItemEnd(lk[t], -1)]
              /\ lastError' = ErrGenerationFailed
         [] OTHER ->
              /\ lk' = [lk EXCEPT ![t] = ItemEnd(lk[t], -1)]
              /\ lastError' = ErrGenException
  /\ UNCHANGED <<request_mutex, tensorVars, forwardVars, errorVars, convVars, modelVars,
                 variant, engineVars, th, autoLog, hist>>

\* delete engine, after the lock_guard scope of destroy_engine has closed: the
\* object is released with its table and its mutex, whoever holds the mutex
LockDelete(t) ==
  /\ lk[t].pc = "l_delete"
  /\ engAlloc = "live"
  /\ engAlloc' = "freed"
  /\ teardown' = "released"
  /\ model_path' = ""
  /\ ready' = FALSE
  /\ active_requests' = EmptyMap
  /\ lk' = [lk EXCEPT ![t] = IdleLock]
  /\ UNCHANGED <<request_mutex, tensorVars, forwardVars, errorVars, convVars, modelVars,
                 variant, lastError, next_request_id, built, th, autoLog, hist>>

\* the next statement of a call in progress reads ready, locks request_mutex,
\* touches the table or calls the backend of an engine another thread has
\* deleted: undefined
LockOnReleased(t) ==
  /\ lk[t].pc \notin {"idle", "ub"}
  /\ engAlloc = "freed"
  /\ lk' = [lk EXCEPT ![t].pc = "ub"]
  /\ UNCHANGED <<request_mutex, tensorVars, forwardVars, errorVars, convVars, callVars>>

(* ------------------------------ Next ---------------------------------- *)
\* the caller has looked at the result of its call
Forget ==
  /\ th[Observed].returned
  /\ th' = [th EXCEPT ![Observed] = Returned]
  /\ UNCHANGED <<auxVars, modelVars, variant, lastError, engineVars, autoLog, hist>>

Next ==
  \/ Forget
  \/ \E t \in Threads :
       \/ CreateCall(t)
       \/ CreateStep(t)
       \/ CreateMarkReady(t)
       \/ CreateReturn(t)
       \/ DestroyCall(t)
       \/ DestroyStore(t)
       \/ DestroyClear(t)
       \/ DestroyDelete(t)
       \/ IsReady(t)
       \/ GenerateCall(t)
       \/ BatchCall(t)
       \/ GenReady(t)
       \/ GenId(t)
       \/ GenInsert(t)
       \/ GenDispatch(t)
       \/ GenErase(t)
       \/ GenBody(t)
       \/ InfoCall(t)
       \/ InfoBody(t)
       \/ GenerateAsync(t)
       \/ GetResponse(t)
       \/ FreeResponse(t)
       \/ FreeModelInfo(t)
       \/ CreateModel(t)
       \/ ModelSetup(t)
       \/ CreateModelInstance(t)
       \/ CreateTensor(t)
       \/ CreateTensorMap(t)
       \/ TensorMapSet(t)
       \/ TensorMapGet(t)
       \/ Forward(t)
       \/ SessionSignal(t)
       \/ ParaSize(t)
       \/ GetTensorSize(t)
       \/ CopyTensor(t)
       \/ SetDevice(t)
       \/ \E kind \in Kinds : DestroyObject(t, kind)

Spec == Init /\ [][Next]_vars

(* ------------------------------ claims -------------------------------- *)
\* the call the caller has just been returned from
Result == th[Observed]
\* the observed call, one of `ops`, has returned and the caller has not yet
\* applied a free operation to what it returned
ReturnedFrom(ops) == Result.returned /\ Result.op \in ops /\ Result.frees = 0
Range(s) == {s[i] : i \in DOMAIN s}

\* C1: a generate racing with destroy_engine never inserts into or erases from
\* the active-request table, nor calls the backend, of an engine whose teardown
\* has begun (destroy_engine has cleared its readiness flag or gone further)
C1_GenerateNeverRunsOnTornDownEngine == ~hist.usedAfterTeardown

\* C2: once destroy_engine has begun tearing the engine down, is_ready returns
\* false and reads no released engine state
C2_IsReadyFalseAfterDestroy ==
  (ReturnedFrom({"is_ready"}) /\ Result.obsAfterDestroy) =>
    ~Result.rdy /\ ~Result.obsReleased

\* C3: the request ID generate assigns is the caller's when that is positive;
\* otherwise it is one the engine's counter gave out, and the counter gives out
\* strictly increasing IDs (so each is greater than all given out before it)
C3_RequestIdAssigned ==
  /\ \A i, j \in DOMAIN autoLog : i < j => autoLog[i] < autoLog[j]
  /\ \A t \in Threads :
       (th[t].tmId # 0 /\ ~th[t].stale) =>
         LET rid == th[t].reqs[th[t].idx].request_id IN
         IF rid > 0 THEN th[t].tmId = rid ELSE th[t].tmId \in Range(autoLog)

\* a generate with a negative request_id got an auto-assigned ID after another
\* ID had been auto-assigned
C3_Witness ==
  /\ ReturnedFrom({"generate"})
  /\ Result.ret = 0
  /\ ~Result.stale
  /\ Result.reqs[1].request_id < 0
  /\ Result.tmId > 1

\* C4: on an engine the call found ready, generate with an empty or null prompt
\* returns -1, sets an error, leaves the response as it was and does not call
\* the backend
C4_EmptyPromptRejected ==
  (/\ ReturnedFrom({"generate"})
   /\ ~Result.engNull /\ Result.reqs # <<>> /\ Result.resps # <<>>
   /\ ~Result.notReady
   /\ safe_string_copy(Result.reqs[1].prompt) = "") =>
    /\ Result.ret = -1
    /\ Result.err # NoError
    /\ Result.resps = Result.resps0
    /\ ~Result.dispatched

\* C5: a batch whose first failing item is item k returns that item's -1, stops
\* at k, leaves the responses from k on as they were, and leaves in each earlier
\* response what generate filled in for that request
C5_BatchStopsAtFirstFailure ==
  (ReturnedFrom({"batch"}) /\ Result.failedAt > 0) =>
    LET k == Result.failedAt IN
    /\ Result.ret = -1
    /\ Result.idx = k
    /\ Len(Result.ids) = k - 1
    /\ \A j \in k..Result.n : Result.resps[j] = Result.resps0[j]
    /\ \A j \in 1..(k - 1) :
         Result.resps[j] = Filled(variant, Result.ids[j], Result.reqs[j], Result.outs[j])

\* a batch failed at its second item, the first one done
C5_Witness ==
  /\ ReturnedFrom({"batch"})
  /\ Result.failedAt = 2
  /\ Result.resps0[1] = StaleResp
  /\ Result.resps[1].finished /\ Result.resps[1].text # "stale"

\* C6: when generate returns -1, every field of the response is as it was
\* before the call and the last-error slot holds the message this call wrote
C6_FailureLeavesResponse ==
  (ReturnedFrom({"generate"}) /\ Result.ret = -1) =>
    /\ Result.resps = Result.resps0
    /\ Result.err # NoError
    /\ lastError = Result.err

\* generate failed on a backend fault, called with a response struct in use
C6_Witness ==
  /\ ReturnedFrom({"generate"})
  /\ Result.ret = -1
  /\ Result.err = ErrGenException
  /\ Result.resps0 = <<StaleResp>>

\* C7: when generate returns 0, the response holds the request ID assigned to
\* the call, a non-null non-empty text and finished = true
C7_SuccessPopulatesResponse ==
  (ReturnedFrom({"generate"}) /\ Result.ret = 0) =>
    /\ Result.resps[1].request_id = Result.tmId
    /\ Result.resps[1].text # NullPtr
    /\ Result.resps[1].text # ""
    /\ Result.resps[1].input_tokens >= 0 /\ Result.resps[1].output_tokens >= 0
    /\ Result.resps[1].finished

\* C8: generate or generate_batch whose readiness check finds the flag false
\* returns -1 with "Engine not ready" (not "Invalid parameters"), having
\* consumed no request ID, inserted no active request, called no backend and
\* written nothing to the response
C8_NotReadyRejected ==
  (ReturnedFrom({"generate", "batch"}) /\ Result.notReady) =>
    /\ Result.ret = -1
    /\ Result.err = ErrNotReady
    /\ Result.err # ErrInvalidParams
    /\ lastError = ErrNotReady
    /\ ~Result.consumed /\ ~Result.inserted /\ ~Result.dispatched
    /\ Result.resps[Result.idx] = Result.resps0[Result.idx]

\* generate found the flag of an engine under teardown, not yet released, false
C8_Witness ==
  /\ ReturnedFrom({"generate"})
  /\ Result.notReady
  /\ engAlloc = "live"
  /\ ~ready

\* C9: create_engine with a null or empty model path returns null and leaves an
\* "Invalid configuration" message in the last-error slot
C9_EmptyModelPathRejected ==
  (ReturnedFrom({"create"}) /\ Result.cfg \in {NullPtr, ""}) =>
    /\ Result.handle = NullPtr
    /\ lastError = ErrInvalidConfig

\* C10: no creation fails with the readiness flag already true; while the
\* engine is under construction the flag is true only when every construction
\* step is done; a failed create_engine returns null and leaves no engine
C10_FailedCreationNeverReady ==
  /\ ~hist.failedWhileReady
  /\ (engAlloc = "constructing" /\ ready) => built = Len(BuildSteps(variant))
  /\ (ReturnedFrom({"create"}) /\ Result.err # NoError) =>
       Result.handle = NullPtr /\ ~ready /\ engAlloc = "none"

\* a creation failed after a construction step had succeeded
C10_Witness ==
  /\ ReturnedFrom({"create"})
  /\ Result.err = "Failed to create model instance"

\* the handle create_engine returned for a non-empty model path, on which no
\* destroy_engine has been called
HandleInUse == engAlloc = "live" /\ teardown = "no" /\ model_path # ""

\* a get_model_info call with both pointers given
InfoCallOn == ReturnedFrom({"model_info"}) /\ ~Result.engNull /\ Result.infos # <<>>
\* a generate call with every pointer given and a non-empty prompt
PromptCallOn ==
  /\ ReturnedFrom({"generate"})
  /\ ~Result.engNull /\ Result.reqs # <<>> /\ Result.resps # <<>>
  /\ safe_string_copy(Result.reqs[1].prompt) # ""

\* C11 as stated: on a handle create_engine returned for a non-empty model path,
\* until destroy_engine is called, is_ready returns true and get_model_info and
\* generate with a non-empty prompt return 0
C11_ReadyHandleServes ==
  HandleInUse =>
    /\ (ReturnedFrom({"is_ready"}) /\ ~Result.engNull) => Result.rdy
    /\ InfoCallOn => Result.ret = 0
    /\ PromptCallOn => Result.ret = 0

\* C11 amended: on such a handle is_ready returns true, and get_model_info and
\* generate with a non-empty prompt return 0 unless the backend fails the call
\* (it throws, or gives generate no response): then they return -1 and leave
\* the backend-failure message
C11_ReadyHandleServesUnlessBackendFails ==
  HandleInUse =>
    /\ (ReturnedFrom({"is_ready"}) /\ ~Result.engNull) => Result.rdy
    /\ InfoCallOn =>
         \/ Result.ret = 0
         \/ /\ Result.backendFault /\ Result.ret = -1
            /\ Result.err = ErrInfoException /\ lastError = ErrInfoException
    /\ PromptCallOn =>
         \/ Result.ret = 0
         \/ /\ Result.dispatched /\ Result.ret = -1
            /\ Result.err \in {ErrGenerationFailed, ErrGenException}
            /\ lastError = Result.err

\* get_model_info answered on a handle in use, created for the path "/m"
C11_Witness ==
  /\ HandleInUse
  /\ InfoCallOn
  /\ Result.ret = 0
  /\ Result.infos[1].model_name = "m"

\* the caller is returned from generate_async or get_response in this step
StubReturns ==
  /\ ~th[Observed].returned
  /\ th'[Observed].returned
  /\ th'[Observed].op \in {"generate_async", "get_response"}

\* C12: generate_async and get_response, on any arguments and in any engine
\* state, return -1 and leave their "not implemented" message in the last-error
\* slot; the call writes nothing to the response, takes no request ID from the
\* counter and changes neither the active-request table nor any other engine state
C12_AsyncStubsFail ==
  [][StubReturns =>
       /\ th'[Observed].ret = -1
       /\ th'[Observed].err \in {ErrAsyncGenerate, ErrAsyncResponse}
       /\ lastError' = th'[Observed].err
       /\ th'[Observed].resps = th'[Observed].resps0
       /\ next_request_id' = next_request_id
       /\ active_requests' = active_requests
       /\ autoLog' = autoLog
       /\ UNCHANGED engineVars]_vars

\* get_response was called on a ready engine with a response struct in use
C12_Witness ==
  /\ ReturnedFrom({"get_response"})
  /\ ~Result.engNull
  /\ Result.resps0 = <<StaleResp>>
  /\ engAlloc = "live" /\ ready

\* the caller applies `free` (free_response, free_model_info) in this step
Frees(ops) == th[Observed].op \in ops /\ th'[Observed].frees = th[Observed].frees + 1
\* what the latest application released
LastReleased(rec) == rec.released[Len(rec.released)]

\* C13: after an application of free_response the text and error_message
\* fields are null; an application to a struct free_response has already been
\* applied to releases nothing and leaves every field as it was
C13_FreeResponseIdempotent ==
  [][Frees({"generate"}) =>
       /\ th'[Observed].resps[1].text = NullPtr
       /\ th'[Observed].resps[1].error_message = NullPtr
       /\ th[Observed].frees >= 1 =>
            /\ LastReleased(th'[Observed]) = {}
            /\ th'[Observed].resps = th[Observed].resps]_vars

\* free_response was applied twice to a response generate had filled with a
\* text and an error message
C13_Witness ==
  /\ Result.returned /\ Result.op = "generate"
  /\ Result.ret = 0
  /\ Result.frees = 2
  /\ Result.released[1] = {"text", "error_message"}

\* C14: after an application of free_model_info the model_name and model_type
\* fields are null; an application to a struct free_model_info has already been
\* applied to releases nothing and leaves every field as it was
C14_FreeModelInfoIdempotent ==
  [][Frees({"model_info"}) =>
       /\ th'[Observed].infos[1].model_name = NullPtr
       /\ th'[Observed].infos[1].model_type = NullPtr
       /\ th[Observed].frees >= 1 =>
            /\ LastReleased(th'[Observed]) = {}
            /\ th'[Observed].infos = th[Observed].infos]_vars

\* free_model_info was applied twice to a struct get_model_info had filled
C14_Witness ==
  /\ Result.returned /\ Result.op = "model_info"
  /\ Result.ret = 0
  /\ Result.frees = 2
  /\ Result.released[1] = {"model_name", "model_type"}
  /\ Result.infos[1].model_name = NullPtr

\* C15: a destroy_engine call made with a handle that has already been
\* destroyed does nothing: it goes past no statement of the teardown and reads
\* or writes nothing of the released engine
C15_SecondDestroyIsNoOp ==
  \A t \in Threads :
    (th[t].op = "destroy" /\ th[t].obsAfterDestroy) =>
      /\ th[t].pc \notin {"d_clear", "d_delete"}
      /\ ~th[t].obsReleased

\* the request of thread t has been inserted and handed to the backend, which
\* has not returned yet
InFlight(t) == th[t].pc = "g_dispatch" /\ th[t].inserted

\* C16: while no destroy_engine has been called, every request that is with the
\* backend has an entry of its own under its ID in the active-request table:
\* the ID is in the table and the entry is the one this call inserted
C16_InFlightRequestsAreTabled ==
  \A t \in Threads :
    (InFlight(t) /\ teardown = "no") =>
      /\ th[t].tmId \in DOMAIN active_requests
      /\ active_requests[th[t].tmId] = t

(* ---- C17 ---- *)
\* the observed call has returned its failure value: a null handle from an
\* operation that returns a handle, a negative status from one that returns int
ReturnedSentinel ==
  /\ Result.returned
  /\ \/ Result.op \in HandleOps /\ Result.handle = NullPtr
     \/ Result.op \in CodeOps /\ Result.ret < 0

\* C17: every operation that returns a failure sentinel (a null handle or a
\* negative code) has written a message to the last-error slot during that
\* same call. VIOLATED by the code: proper's turbomind_tensor_map_get finds the
\* key and returns nullptr without setting a message. (No operation of the
\* model repeats its failed step: every backend step is one transition of one
\* call, so the second half of the claim holds by construction.)
C17_FailureSentinelHasMessage ==
  ReturnedSentinel => Result.err # NoError

(* ---- C18 ---- *)
\* the destroy operations, whose contract for a null handle is C19
DestroyOps == {"destroy"} \cup {"destroy_" \o k : k \in Kinds}

\* the messages by which an operation refuses its arguments
InvalidParameterMessages ==
  {ErrInvalidParams, ErrInvalidBatch} \cup
  {NullMessage(op) : op \in {"create_shared_weights", "create_model_instance",
                             "tensor_map_set", "tensor_map_get", "forward",
                             "end_session", "cancel_request", "get_tensor_para_size",
                             "get_pipeline_para_size", "get_tensor_size",
                             "copy_tensor"}}

\* the observed call was given a null resource handle and has returned; the
\* destroy operations and the is_engine_ready query have no failure to report
NullHandleCall ==
  /\ Result.returned
  /\ Result.engNull
  /\ Result.op \notin DestroyOps \cup {"is_ready"}

\* C18: every operation that takes a resource handle (engine, model,
\* instance, tensor, tensor map), given a null handle, fails with an "invalid
\* parameters" error before reading the handle or calling the backend.
\* VIOLATED by the code: generate_async and get_response never look at their
\* arguments; with a null engine they report "not implemented yet".
C18_NullHandleIsInvalidParameters ==
  NullHandleCall =>
    /\ Result.err \in InvalidParameterMessages
    /\ ~Result.dispatched

(* ---- C19 ---- *)
\* the step in which the observed destroy call, given a null handle, returns
NullDestroyReturns ==
  /\ ~th[Observed].returned
  /\ th'[Observed].returned
  /\ th'[Observed].op \in DestroyOps
  /\ th'[Observed].engNull

\* C19: every destroy operation (destroy_engine, destroy_model,
\* destroy_model_instance, destroy_tensor, destroy_tensor_map,
\* destroy_forward_result) called with a null handle is a no-op: it changes
\* no state, the last-error slot included.
C19_NullDestroyIsNoOp ==
  [][NullDestroyReturns =>
       /\ lastError' = lastError
       /\ UNCHANGED engineVars
       /\ UNCHANGED modelVars
       /\ autoLog' = autoLog]_vars

\* a destroy operation was called with a null handle while the slot held a
\* message and a resource was live
C19_Witness ==
  /\ Result.returned
  /\ Result.op \in DestroyOps
  /\ Result.engNull
  /\ lastError # NoError
  /\ engAlloc = "live" \/ \E k \in Kinds : objs[k] = "live"

(* ---- C20 ---- *)
\* C20: a fault raised by the inference backend inside a boundary operation
\* never propagates to the caller: the operation returns, with its failure
\* sentinel where it has one, and has recorded a message in the last-error
\* slot; this for every operation that calls the backend, destroy operations
\* and get_model_info included. VIOLATED by the code: no destroy operation has
\* a handler around its `delete`, so a fault of a backend destructor leaves
\* the call without a return value or a message.
C20_BackendFaultsAreConverted ==
  \A t \in Threads :
    th[t].backendFault =>
      /\ th[t].returned
      /\ th[t].err # NoError
      /\ th[t].op \in CodeOps => th[t].ret = -1
      /\ th[t].op \in HandleOps => th[t].handle = NullPtr

(* ================== the component specifications ======================= *)
\* no call is in progress on the engine or the low-level handles; the build
\* is `v`
CallsIdle(v) ==
  /\ variant = v
  /\ lastError = NoError
  /\ engAlloc = "none"
  /\ model_path = ""
  /\ ready = FALSE
  /\ next_request_id = 1
  /\ active_requests = EmptyMap
  /\ built = 0
  /\ teardown = "no"
  /\ th = [t \in Threads |-> IdleThread]
  /\ autoLog = <<>>
  /\ hist = [usedAfterTeardown |-> FALSE, failedWhileReady |-> FALSE]
  /\ objs = [k \in Kinds |-> "none"]
  /\ tensors = {}

\* tensors of turbomind_wrapper_minimal_test.cpp: created, measured, destroyed
TensorInit == CallsIdle("minimal_test") /\ AuxIdle
TensorNext == TensorCreate \/ TensorGetSize \/ TensorDestroy
TensorSpec == TensorInit /\ [][TensorNext]_vars

(* ---- C21 ---- *)
\* the byte width the interface gives each data type
ByteWidth(dt) ==
  CASE dt \in {"TM_TYPE_BOOL", "TM_TYPE_INT8", "TM_TYPE_UINT8"} -> 1
    [] dt \in {"TM_TYPE_INT16", "TM_TYPE_UINT16", "TM_TYPE_FP16", "TM_TYPE_BF16"} -> 2
    [] dt \in {"TM_TYPE_INT32", "TM_TYPE_UINT32", "TM_TYPE_FP32"} -> 4
    [] OTHER -> 8

\* C21: for every tensor, of every data type of the enumeration and every
\* shape, get_tensor_size is the product of the shape's dimensions times the
\* byte width of the data type (1 for bool/int8/uint8, 2 for
\* int16/uint16/fp16/bf16, 4 for int32/uint32/fp32, 8 for int64/uint64/fp64);
\* a shape with a zero dimension gives 0. VIOLATED by the code: the
\* constructor knows three data types and takes 4 bytes for every other.
C21_TensorSizeIsProductTimesWidth ==
  \A tn \in Range(tensor) :
    tn.dtype # "TM_TYPE_INVALID" =>
      /\ tn.size_bytes = ShapeProduct(tn.shape) * ByteWidth(tn.dtype)
      /\ \A sz \in Range(tsize) : sz = ShapeProduct(tn.shape) * ByteWidth(tn.dtype)
      /\ (\E i \in DOMAIN tn.shape : tn.shape[i] = 0) => tn.size_bytes = 0

\* forward calls of two threads on one model instance, either low-level build
ForwardInit ==
  /\ \E v \in ModelVariants : CallsIdle(v)
  /\ AuxIdle
ForwardNext ==
  \/ ForwardForget
  \/ \E t \in Threads : ForwardEnter(t) \/ ForwardReturn(t)
ForwardSpec == ForwardInit /\ [][ForwardNext]_vars

(* ---- C22 ---- *)
\* the observed forward call, with all four pointers given, was issued on a
\* session ID after a start and an end on that ID had returned, and has
\* itself returned
ForwardAfterEnd ==
  /\ fw[Observed].pc = "returned"
  /\ fw[Observed].arg = "none"
  /\ fw[Observed].afterEnd

InBackend(t, id) == fw[t].pc = "backend" /\ fw[t].session[1].id = id

\* C23: at most one forward call is in progress inside the backend per
\* session ID at any time: a forward issued on a session that has an
\* outstanding forward is rejected or waits until that one has returned.
\* VIOLATED by the code: turbomind_forward holds no lock and keeps no record
\* of the sessions in use, so two threads enter Forward with the same ID.
C23_OneForwardPerSession ==
  \A id \in SessionIds :
    \A t1, t2 \in Threads : (InBackend(t1, id) /\ InBackend(t2, id)) => t1 = t2

(* ---- C24 ---- *)
\* the list breaks the caller's contract: a positive count with a null
\* pointer, or a pointer with a non-positive count
Malformed(l) == (l.null /\ l.count > 0) \/ (~l.null /\ l.count <= 0)

\* C24: forward rejects (returns null with an error, without dispatching to
\* the backend) every generation config in which an ID list (eos, stop or bad)
\* has a positive count with a null pointer, or a non-null pointer with a
\* non-positive count. VIOLATED by the code: such a list is skipped and the
\* call goes on to the backend.
C24_MalformedIdListRejected ==
  \A t \in Threads :
    (fw[t].pc # "idle" /\ fw[t].arg = "none" /\ Malformed(fw[t].list[1])) =>
      /\ fw[t].pc = "returned"
      /\ fw[t].handle = NullPtr
      /\ fw[t].err # NoError
      /\ fw[t].sent = <<>>

(* ---- C25 ---- *)
\* the step of destroy_engine that releases the engine and its backend
ReleasesBackend == engAlloc = "live" /\ engAlloc' = "freed"
\* the step of destroy_engine that empties the request table
DrainsTable == teardown # "drained" /\ teardown' = "drained"

\* C25: for every non-null engine destroy_engine clears the readiness flag,
\* then empties the active-request table under the engine's lock, then
\* releases the backend; no backend resource is released while the readiness
\* flag is still true or the table is non-empty. VIOLATED by the code: a
\* generate call that read the flag before it was cleared inserts its request
\* after the table was emptied, and the engine is deleted with the entry in it.
C25_TeardownOrder ==
  [][/\ DrainsTable => ~ready
     /\ ReleasesBackend => (~ready /\ active_requests = EmptyMap)]_vars

(* ---- C26 ---- *)
\* C26: the readiness flag is monotone over the engine's lifecycle: it rises
\* only on the engine under construction, once every construction step is
\* done and before teardown; it falls only when teardown clears it or the
\* half-built engine is discarded; once destroy_engine has cleared it, it is
\* false in every later state
C26_ReadinessMonotone ==
  [][/\ (~ready /\ ready') =>
          /\ engAlloc = "constructing" /\ engAlloc' = "constructing"
          /\ built = Len(BuildSteps(variant))
          /\ teardown = "no"
     /\ (ready /\ ~ready') => (engAlloc' = "none" \/ TearingDown')
     /\ TearingDown => (TearingDown' /\ ~ready')]_vars

\* destroy_engine has cleared the flag of a live engine while a generate call
\* that entered before is still running on it
C26_Witness ==
  /\ engAlloc = "live" /\ teardown = "unready" /\ ~ready
  /\ \E t \in Threads : th[t].op = "generate" /\ ~At(t, "idle")

\* failing operations and readers of the error slot on two threads, any build
ErrorInit ==
  /\ \E v \in Variants \cup ModelVariants : CallsIdle(v)
  /\ AuxIdle
ErrorNext ==
  \E t \in Threads :
    \/ SetLastError(t) \/ AssignBegin(t) \/ AssignEnd(t)
    \/ GetLastError(t) \/ GetLastErrorReturn(t)
    \/ ReadBegin(t) \/ ReadEnd(t) \/ ErrorForget(t)
ErrorSpec == ErrorInit /\ [][ErrorNext]_vars

(* ---- C27 ---- *)
\* C27: the slot retains exactly one message, last write wins: when
\* get_last_error returns, the slot holds the message of the set_last_error
\* that completed most recently, and what the caller reads through the
\* returned pointer is one whole message, never a mixture of two. VIOLATED by
\* the code: the caller reads after the lock is released, while another
\* thread's set_last_error rewrites the buffer; the test build has no lock.
C27_LastWriteWins ==
  [][\A t \in Threads :
       /\ (ec[t].pc = "c_str" /\ ec'[t].pc = "view") => g_last_error = Whole(completed)
       /\ ec'[t].pc = "seen" => ec'[t].got[1] = ec'[t].got[2]]_vars

(* ---- C28 ---- *)
\* the thread is writing the characters of the slot
Writing(t) == ec[t].pc \in {"assign", "assigning"}
\* the thread is reading the slot: inside get_last_error, or part of the way
\* through the message behind the returned pointer
Reading(t) == ec[t].pc \in {"c_str", "reading"}

\* C28: the message is guarded by a single lock: no write of the slot runs
\* together with another write or with a read of the message, the caller's
\* read through the returned pointer included. VIOLATED by the code: the
\* pointer outlives the lock, and the test build has no lock at all.
C28_ErrorSlotAccessIsExclusive ==
  \A t, u \in Threads :
    (t # u /\ Writing(t)) => (~Writing(u) /\ ~Reading(u))

\* requests converted for the backend, on the generate and the forward path
ParamsInit ==
  /\ \E v \in {"wrapper", "real", "proper"} : CallsIdle(v)
  /\ AuxIdle
ParamsNext == GenerateConvert \/ ForwardConvert \/ SamplingForget
ParamsSpec == ParamsInit /\ [][ParamsNext]_vars

(* ---- C29 ---- *)
\* the defaults the interface defines: 512, 0.7, 0.8, 40, 1.0
DefinedDefault ==
  [max_new_tokens |-> 512, temperature |-> 7, top_p |-> 8, top_k |-> 40,
   repetition_penalty |-> 10]

\* C29: on the generate path and on the forward path, every numeric
\* generation parameter the caller gives as non-positive reaches the backend
\* as its defined default (512, 0.7, 0.8, 40, 1.0), and every positive one
\* unchanged. VIOLATED by the code: turbomind_forward copies the caller's
\* values as they are.
C29_NonPositiveParamsGetDefaults ==
  \A s \in Range(sampling) : \A f \in SamplingFields :
    s.sent[f] = IF s.req[f] > 0 THEN s.req[f] ELSE DefinedDefault[f]

\* engines created from every configuration, in every engine build
ConfigInit ==
  /\ \E v \in Variants : CallsIdle(v)
  /\ AuxIdle
ConfigNext == StoreEngineConfig \/ ReleaseEngineConfig
ConfigSpec == ConfigInit /\ [][ConfigNext]_vars

(* ---- C30 ---- *)
\* C30: every created engine stores a tensor-parallel degree >= 1, a max
\* sequence length > 0 and a max batch size > 0: the given value when it is
\* positive, else 1, 2048 and 32; the stored values stay as they are while the
\* engine lives. VIOLATED by the code: the simplified engine stores none of
\* the three.
C30_EngineStoresSizedConfig ==
  [][/\ \A c \in Range(config') :
          /\ \E p \in c.stored : p[1] = "tp" /\ p[2] >= 1
                                 /\ p[2] = (IF c.given.tp > 0 THEN c.given.tp ELSE 1)
          /\ \E p \in c.stored : p[1] = "session_len" /\ p[2] > 0
                                 /\ p[2] = (IF c.given.session_len > 0
                                            THEN c.given.session_len ELSE 2048)
          /\ \E p \in c.stored : p[1] = "max_batch_size" /\ p[2] > 0
                                 /\ p[2] = (IF c.given.max_batch_size > 0
                                            THEN c.given.max_batch_size ELSE 32)
     /\ (config # NoObject /\ config' # NoObject) => config' = config]_vars

(* ---- C31 ---- *)
\* tensor_map_get was called with both pointers given and its try block ended
\* without an exception
MapLookup ==
  /\ ReturnedFrom({"tensor_map_get"})
  /\ Result.arg = "none"
  /\ ~Result.backendFault

\* C31: a tensor map holds at most one tensor per name; tensor_map_get on a
\* name that was set returns a non-null handle to the tensor set under it,
\* and on a name never set returns null with a "Tensor not found" message.
\* VIOLATED by the code: turbomind_wrapper_proper.cpp returns nullptr for a
\* name it found.
C31_MapGetReturnsWhatWasSet ==
  MapLookup =>
    IF Result.key \in tensors
    THEN Result.handle = "tensor"
    ELSE /\ Result.handle = NullPtr
         /\ lastError = "Tensor not found in map: " \o Result.key

(* ---- C32 ---- *)
\* C32: map entries are borrowed references tied to the lender's lifetime:
\* tensor_map_get never returns a handle to a destroyed tensor, and
\* destroy_tensor_map leaves the caller's tensor as it is. VIOLATED by the
\* code: the map keeps the raw pointer after destroy_tensor and hands it out.
C32_MapEntriesAreBorrowed ==
  [][/\ (/\ th'[Observed].returned
         /\ th'[Observed].op = "tensor_map_get"
         /\ th'[Observed].handle # NullPtr) => objs'.tensor = "live"
     /\ (objs.tensor_map = "live" /\ objs'.tensor_map = "freed") =>
          objs'.tensor = objs.tensor]_vars

\* forward calls and session signals of two threads on one model instance
SignalNext ==
  \/ ForwardForget
  \/ \E t \in Threads : ForwardEnter(t) \/ ForwardReturn(t) \/ SignalCall(t)
SignalSpec == ForwardInit /\ [][SignalNext]_vars

(* ---- C33 ---- *)
\* the observed end_session or cancel_request call has returned
SignalReturned == fw[Observed].pc = "returned" /\ fw[Observed].signal # "none"

\* C33: end_session and cancel_request are non-blocking signals: a thread
\* outside a call can always make and complete the call, whatever forward
\* call is running in the backend; the call issues at most one signal; with a
\* null instance it sets the error and issues no signal
C33_SignalsDoNotBlock ==
  /\ \A t \in Threads :
       (fw[t].pc = "idle" /\ fw[Observed].pc # "returned") => ENABLED SignalCall(t)
  /\ SignalReturned =>
       /\ fw[Observed].signals <= 1
       /\ fw[Observed].arg # "none" =>
            /\ fw[Observed].signals = 0
            /\ fw[Observed].err = NullMessage(fw[Observed].signal)
            /\ lastError = NullMessage(fw[Observed].signal)

\* the signal was issued and the call returned while the other thread's
\* forward call was still in the backend
C33_Witness ==
  /\ SignalReturned
  /\ fw[Observed].signals = 1
  /\ fw[Other].pc = "backend"

(* ---- C34 ---- *)
\* the construction steps create_engine has completed on the engine
StepsDone == SubSeq(BuildSteps(variant), 1, built)

\* C34: setup precedes instance creation: whenever the model instance of a
\* model has been created, that model's weight processing and engine creation
\* have completed before it. VIOLATED by the code: turbomind_wrapper_real.cpp
\* creates the instance first.
C34_SetupPrecedesInstance ==
  \A i \in DOMAIN StepsDone :
    StepsDone[i] = "createModelInstance" =>
      \A setup \in {"processWeights", "createEngine"} :
        \E j \in 1..(i - 1) : StepsDone[j] = setup

(* ---- C35 ---- *)
\* thread t is inside a generate or generate_batch call
Generating(t) ==
  /\ th[t].op \in {"generate", "batch"}
  /\ ~th[t].returned
  /\ th[t].pc \notin {"idle", "ub", "terminated"}

\* C35: whenever no generate call is in progress on a live engine, its
\* active-request table is empty: a call that inserted an entry removes it
\* before it returns, on success and on every failure path. VIOLATED by the
\* code: when the backend returns no response or throws, generate returns -1
\* and leaves its entry in the table.
C35_IdleEngineHasEmptyTable ==
  (engAlloc = "live" /\ teardown = "no" /\ \A t \in Threads : ~Generating(t)) =>
    active_requests = EmptyMap

(* ---- C38 ---- *)
\* the generate call of this thread record got its request ID from the
\* counter of the engine
HoldsAutoId(rec) ==
  /\ rec.op \in {"generate", "batch"}
  /\ rec.tmId # 0 /\ ~rec.stale
  /\ rec.reqs[rec.idx].request_id <= 0

\* C38: generate calls of different threads on one engine, each without a
\* caller-supplied ID, never receive the same auto-assigned request ID, and
\* the ID counter of the engine never decreases
C38_ConcurrentAutoIdsDiffer ==
  [][/\ \A t, u \in Threads :
          (t # u /\ HoldsAutoId(th[t])' /\ HoldsAutoId(th[u])') => th'[t].tmId # th'[u].tmId
     /\ (engAlloc = "live" /\ engAlloc' = "live") => next_request_id' >= next_request_id]_vars

\* both threads are inside generate on the live engine, each with an ID taken
\* from the counter
C38_Witness ==
  /\ engAlloc = "live"
  /\ \A t \in Threads : Generating(t) /\ HoldsAutoId(th[t])

(* ---- C39 ---- *)
\* the request of the observed generate call carries no positive ID
AutoIdAsked == Result.reqs # <<>> /\ Result.reqs[1].request_id <= 0

\* C39 as claimed: the counter advances only for a generate call that succeeds
\* without a caller-supplied positive ID; a call with a positive ID and every
\* call that returns -1 leave it unchanged. VIOLATED: a call whose backend
\* fails has taken its ID from the counter before the dispatch.
C39_CounterAdvancesOnlyOnSuccess ==
  (ReturnedFrom({"generate"}) /\ Result.consumed) => (Result.ret = 0 /\ AutoIdAsked)

\* C39, amended: the counter advances exactly for a generate call without a
\* caller-supplied positive ID that has passed the argument, readiness and
\* empty-prompt checks of its implementation; a call with a positive ID and
\* every call those checks turn away leave it unchanged; a call that returns
\* -1 with the counter advanced is one whose backend failed
C39_CounterAdvancesPastChecks ==
  ReturnedFrom({"generate"}) =>
    /\ Result.consumed <=> (AutoIdAsked /\ Result.tmId # 0 /\ ~Result.stale)
    /\ Result.consumed =>
         /\ ~Result.engNull /\ Result.resps # <<>> /\ ~Result.notReady
         /\ ChecksEmptyPrompt(variant) => safe_string_copy(Result.reqs[1].prompt) # ""
         /\ Result.ret = -1 => Result.dispatched

\* a generate call without an ID returned -1 from the backend with the
\* counter advanced
C39_Witness ==
  /\ ReturnedFrom({"generate"})
  /\ Result.consumed
  /\ Result.ret = -1

(* ---- C40 ---- *)
\* the observed call returns in this step with the value of a success: 0 from
\* an operation that returns a status, a handle from one that returns a handle
ReturnsSuccess ==
  /\ ~th[Observed].returned
  /\ th'[Observed].returned
  /\ \/ th'[Observed].op \in CodeOps /\ th'[Observed].ret = 0
     \/ th'[Observed].op \in HandleOps /\ th'[Observed].handle # NullPtr

\* C40: an operation that succeeds leaves the last-error slot as it is, and
\* no step clears the slot: after a failing call, successful calls leave its
\* message there for get_last_error
C40_SuccessKeepsLastError ==
  [][/\ ReturnsSuccess => lastError' = lastError
     /\ lastError # NoError => lastError' # NoError]_vars

\* a call has succeeded with the message of an earlier failing call in the slot
C40_Witness ==
  /\ Result.returned
  /\ Result.op \in HandleOps /\ Result.handle # NullPtr
  /\ Result.err = NoError
  /\ lastError # NoError

\* generate, generate_batch and destroy_engine of turbomind_wrapper.cpp on one
\* engine that create_engine has returned ready
LockInit ==
  /\ AuxIdle
  /\ variant = "wrapper"
  /\ lastError = NoError
  /\ engAlloc = "live"
  /\ model_path = "/m"
  /\ ready = TRUE
  /\ next_request_id = 1
  /\ active_requests = EmptyMap
  /\ built = ReadyAt("wrapper")
  /\ teardown = "no"
  /\ th = [t \in Threads |-> IdleThread]
  /\ autoLog = <<>>
  /\ hist = [usedAfterTeardown |-> FALSE, failedWhileReady |-> FALSE]
  /\ objs = [k \in Kinds |-> "none"]
  /\ tensors = {}
LockNext ==
  \E t \in Threads :
    \/ LockCall(t) \/ LockReady(t) \/ LockAcquire(t) \/ LockedAccess(t)
    \/ LockBackend(t) \/ LockDelete(t) \/ LockOnReleased(t)
LockSpec == LockInit /\ [][LockNext]_vars

(* ---- C36 ---- *)
\* thread t is at a lock_guard and does not hold the mutex yet
WaitsForLock(t) == lk[t].pc \in {"l_insert", "l_erase", "l_clear"} /\ request_mutex # t

\* C36: request_mutex is never held by a thread that is in the backend call,
\* and no interleaving of generate, generate_batch and destroy_engine leaves a
\* thread waiting for the lock for ever: a thread at a lock_guard can take
\* the mutex, or the thread that holds it can finish its scope and unlock.
\* VIOLATED by the code (the use-after-release of C1): destroy_engine deletes
\* the engine while a generate that passed the ready check is on its way to
\* the lock_guard, which then locks a mutex in released memory.
C36_LockAlwaysAcquired ==
  \A t \in Threads :
    /\ lk[t].pc = "l_backend" => request_mutex # t
    /\ WaitsForLock(t) =>
         \/ ENABLED LockAcquire(t)
         \/ \E u \in Threads : request_mutex = u /\ ENABLED LockedAccess(u)

(* ---- C37 ---- *)
\* thread t executes a statement on the table: the insert, the erase, the
\* clear, or the delete that releases the table with the engine
TableStep(t) ==
  /\ lk[t].pc \in {"l_insert", "l_erase", "l_clear", "l_delete"}
  /\ lk'[t].pc \notin {lk[t].pc, "ub"}

\* C37: every access to the active-request table, by generate and by every
\* step of destroy_engine, the final release of the engine included, is made
\* by a thread that holds request_mutex.
\* VIOLATED by the code: delete engine comes after the lock_guard scope of
\* destroy_engine and releases the table with no lock held.
C37_TableAccessUnderLock ==
  [][\A t \in Threads : TableStep(t) => request_mutex = t]_vars

====
